---- MODULE Spec2Model ----
(***************************************************************************)
(* Multi-phase clocking: construction of the stage/phase assignment model  *)
(* by python/multiphase/phase_assignment.py (merged sigma formulation)     *)
(* and python/multiphase/Gradual_ILP.py (dual stage + phase formulation).  *)
(*                                                                         *)
(* A run reads a specs file line by line, allocates the timing variables,  *)
(* visits every signal once to emit its constraints and cost terms, hands  *)
(* the model to the CP-SAT engine and prints the values.  The engine is    *)
(* modelled by its contract: it returns any assignment of all variables    *)
(* that lies in the domains and satisfies every constraint.                *)
(***************************************************************************)
EXTENDS Integers, Sequences, FiniteSets, TLC

VARIABLES script, NPH, file, pc, i, all_signals, all_t1_cells, fanout,
          Sigma, S, Phi, model, expr, already_processed, cases,
          minimized, status, value, err, printed, solver, parsed, cpsat_vars,
          first_run

vars == <<script, NPH, file, pc, i, all_signals, all_t1_cells, fanout,
          Sigma, S, Phi, model, expr, already_processed, cases,
          minimized, status, value, err, printed, solver, parsed, cpsat_vars,
          first_run>>

(***************************************************************************)
(* Bounds of the model.                                                    *)
(***************************************************************************)
\* upper end of sigma_bounds (1000 in the scripts), scaled down
SigmaMax == 4
\* upper end of S_bounds (1000 in Gradual_ILP.py), scaled down
StageMax == 2
\* largest phase count given on the command line of phase_assignment.py
MaxNPH == 3
\* longest fanin list of the generated one-gate files
MaxFanins == 3

\* NPH of Gradual_ILP.py
DualNPH == 2

(***************************************************************************)
(* Small helpers.                                                          *)
(***************************************************************************)
Range(s) == {s[k] : k \in DOMAIN s}

RECURSIVE SeqSum(_)
SeqSum(s) == IF s = <<>> THEN 0 ELSE Head(s) + SeqSum(Tail(s))

SetMax(T) == CHOOSE x \in T : \A y \in T : y <= x
SetMin(T) == CHOOSE x \in T : \A y \in T : x <= y

(***************************************************************************)
(* Linear expressions over model variables.  A variable is its index in    *)
(* model.vars (the order of the NewIntVar / NewBoolVar calls).             *)
(***************************************************************************)
Var(k) == [c |-> 0, t |-> << <<1, k>> >>]
Const(n) == [c |-> n, t |-> <<>>]
Plus(e1, e2) == [c |-> e1.c + e2.c, t |-> e1.t \o e2.t]
Scale(n, e) == [c |-> n * e.c, t |-> [k \in DOMAIN e.t |-> <<n * e.t[k][1], e.t[k][2]>>]]
Minus(e1, e2) == Plus(e1, Scale(-1, e2))

EvalE(e, val) == e.c + SeqSum([k \in DOMAIN e.t |-> e.t[k][1] * val[e.t[k][2]]])
ExprVars(e) == {e.t[k][2] : k \in DOMAIN e.t}

(***************************************************************************)
(* Constraints.  op is one of                                              *)
(*   "le" "lt" "eq" : a op b                     (model.Add)               *)
(*   "max" "min"    : a = max/min of es          (AddMax/MinEquality)      *)
(*   "div" "mod"    : a = b div n, a = b mod n   (AddDivision/Modulo...)   *)
(*   "and" "or"     : all / some literal of ls   (AddBoolAnd/AddBoolOr)    *)
(*   "amo"          : at most one literal of ls  (AddAtMostOne)            *)
(*   "alldiff"      : the es differ pairwise     (AddAllDifferent)         *)
(* lit is the enforcement literal of OnlyEnforceIf: k for variable k,      *)
(* -k for its negation, 0 when the constraint is unconditional.            *)
(***************************************************************************)
NoE == Const(0)
Lin(op, a, b) == [op |-> op, a |-> a, b |-> b, es |-> <<>>, n |-> 1, ls |-> <<>>, lit |-> 0]
Le(a, b) == Lin("le", a, b)
Lt(a, b) == Lin("lt", a, b)
Eq(a, b) == Lin("eq", a, b)
Ge(a, b) == Lin("le", b, a)
Gt(a, b) == Lin("lt", b, a)
MaxEquality(a, es) == [op |-> "max", a |-> a, b |-> NoE, es |-> es, n |-> 1, ls |-> <<>>, lit |-> 0]
MinEquality(a, es) == [op |-> "min", a |-> a, b |-> NoE, es |-> es, n |-> 1, ls |-> <<>>, lit |-> 0]
DivisionEquality(a, b, n) == [op |-> "div", a |-> a, b |-> b, es |-> <<>>, n |-> n, ls |-> <<>>, lit |-> 0]
ModuloEquality(a, b, n) == [op |-> "mod", a |-> a, b |-> b, es |-> <<>>, n |-> n, ls |-> <<>>, lit |-> 0]
BoolAnd(ls) == [op |-> "and", a |-> NoE, b |-> NoE, es |-> <<>>, n |-> 1, ls |-> ls, lit |-> 0]
BoolOr(ls) == [op |-> "or", a |-> NoE, b |-> NoE, es |-> <<>>, n |-> 1, ls |-> ls, lit |-> 0]
AtMostOne(ls) == [op |-> "amo", a |-> NoE, b |-> NoE, es |-> <<>>, n |-> 1, ls |-> ls, lit |-> 0]
AllDifferent(es) == [op |-> "alldiff", a |-> NoE, b |-> NoE, es |-> es, n |-> 1, ls |-> <<>>, lit |-> 0]
OnlyEnforceIf(c, l) == [c EXCEPT !.lit = l]

\* integer division and remainder of the engine round towards zero
DivTrunc(x, n) == IF x >= 0 THEN x \div n ELSE -((-x) \div n)
ModTrunc(x, n) == x - n * DivTrunc(x, n)

LitTrue(l, val) == IF l > 0 THEN val[l] = 1 ELSE val[-l] = 0
LitVar(l) == IF l > 0 THEN l ELSE -l

Body(c, val) ==
  CASE c.op = "le" -> EvalE(c.a, val) <= EvalE(c.b, val)
    [] c.op = "lt" -> EvalE(c.a, val) < EvalE(c.b, val)
    [] c.op = "eq" -> EvalE(c.a, val) = EvalE(c.b, val)
    [] c.op = "max" -> EvalE(c.a, val) = SetMax({EvalE(c.es[k], val) : k \in DOMAIN c.es})
    [] c.op = "min" -> EvalE(c.a, val) = SetMin({EvalE(c.es[k], val) : k \in DOMAIN c.es})
    [] c.op = "div" -> EvalE(c.a, val) = DivTrunc(EvalE(c.b, val), c.n)
    [] c.op = "mod" -> EvalE(c.a, val) = ModTrunc(EvalE(c.b, val), c.n)
    [] c.op = "and" -> \A k \in DOMAIN c.ls : LitTrue(c.ls[k], val)
    [] c.op = "or" -> \E k \in DOMAIN c.ls : LitTrue(c.ls[k], val)
    [] c.op = "amo" -> Cardinality({k \in DOMAIN c.ls : LitTrue(c.ls[k], val)}) <= 1
    [] c.op = "alldiff" -> \A x, y \in DOMAIN c.es :
                             x # y => EvalE(c.es[x], val) # EvalE(c.es[y], val)

Holds(c, val) == (c.lit # 0 /\ ~LitTrue(c.lit, val)) \/ Body(c, val)

ConsVars(c) ==
  ExprVars(c.a) \cup ExprVars(c.b)
    \cup UNION {ExprVars(c.es[k]) : k \in DOMAIN c.es}
    \cup {LitVar(c.ls[k]) : k \in DOMAIN c.ls}
    \cup (IF c.lit = 0 THEN {} ELSE {LitVar(c.lit)})

(***************************************************************************)
(* The engine: every assignment of all variables within their domains      *)
(* that satisfies every constraint.  Variables are labelled one by one, in *)
(* the order in which the constraints mention them; a constraint is tested *)
(* as soon as its last variable has a value.  The order only decides how   *)
(* early a dead end is seen, never which assignments are found.            *)
(***************************************************************************)
RECURSIVE SetToSeq(_)
SetToSeq(T) == IF T = {} THEN <<>> ELSE << SetMin(T) >> \o SetToSeq(T \ {SetMin(T)})

RECURSIVE LabelOrder(_, _, _)
LabelOrder(m, j, ord) ==
  IF j > Len(m.cons) THEN ord \o SetToSeq((1..Len(m.vars)) \ Range(ord))
  ELSE LabelOrder(m, j + 1, ord \o SetToSeq(ConsVars(m.cons[j]) \ Range(ord)))

\* for every position of the order, the constraints completed there
RECURSIVE Completes(_, _, _)
Completes(m, ord, k) ==
  IF k > Len(ord) THEN <<>>
  ELSE LET seen == {ord[h] : h \in 1..k}
           before == {ord[h] : h \in 1..(k - 1)}
       IN << {j \in DOMAIN m.cons : ConsVars(m.cons[j]) \subseteq seen
                                    /\ ~(ConsVars(m.cons[j]) \subseteq before)} >>
          \o Completes(m, ord, k + 1)

RECURSIVE Extend(_, _, _, _, _)
Extend(k, partials, m, ord, at) ==
  IF k > Len(ord) \/ partials = {} THEN partials
  ELSE Extend(k + 1,
              {[pr[1] EXCEPT ![ord[k]] = pr[2]] :
                 pr \in {q \in partials \X (m.vars[ord[k]].lo .. m.vars[ord[k]].hi) :
                           \A j \in at[k] : Holds(m.cons[j], [q[1] EXCEPT ![ord[k]] = q[2]])}},
              m, ord, at)

Solutions(m) ==
  IF \E j \in DOMAIN m.cons : ConsVars(m.cons[j]) = {} /\ ~Holds(m.cons[j], <<>>) THEN {}
  ELSE LET ord == LabelOrder(m, 1, <<>>)
       IN  Extend(1, {[v \in 1..Len(m.vars) |-> 0]}, m, ord, Completes(m, ord, 1))

Objective(es, val) == SeqSum([k \in DOMAIN es |-> EvalE(es[k], val)])

\* every solution with its objective value, and the least objective value
Ranked(sols, es) == {<<v, Objective(es, v)>> : v \in sols}
Best(ranked) == SetMin({r[2] : r \in ranked})

(***************************************************************************)
(* Dictionaries of the scripts.  all_signals keeps its insertion order     *)
(* (the loops iterate over all_signals.values()), so it is the sequence of *)
(* its values; assigning an existing key replaces the value in place.      *)
(***************************************************************************)
Has(items, sig) == \E k \in DOMAIN items : items[k].sig = sig
Get(items, sig) == items[CHOOSE k \in DOMAIN items : items[k].sig = sig]
Put(items, g) ==
  IF Has(items, g.sig)
  THEN [k \in DOMAIN items |-> IF items[k].sig = g.sig THEN g ELSE items[k]]
  ELSE Append(items, g)

RECURSIVE PutAll(_, _)
PutAll(items, gs) == IF gs = <<>> THEN items ELSE PutAll(Put(items, Head(gs)), Tail(gs))

\* defaultdict(int)
Count(d, sig) == IF sig \in DOMAIN d THEN d[sig] ELSE 0
Incr(d, sig) == IF sig \in DOMAIN d THEN [d EXCEPT ![sig] = @ + 1] ELSE d @@ (sig :> 1)

RECURSIVE IncrAll(_, _)
IncrAll(d, sigs) == IF sigs = <<>> THEN d ELSE IncrAll(Incr(d, Head(sigs)), Tail(sigs))

(***************************************************************************)
(* Specs files.  A line is kept as its fields:                             *)
(*   kind   "PI" for a line of primary inputs, "GATE" otherwise            *)
(*   sigs   the '|'-separated signal ids of the first field (0 = absent)   *)
(*   type   the type code                                                  *)
(*   fanins the '|'-separated fanin ids, neg their '~' marks               *)
(***************************************************************************)
PILine(sigs) == [kind |-> "PI", sigs |-> sigs, type |-> "", fanins |-> <<>>, neg |-> <<>>]
GateLine(sig, type, fanins) ==
  [kind |-> "GATE", sigs |-> <<sig>>, type |-> type, fanins |-> fanins,
   neg |-> [k \in DOMAIN fanins |-> FALSE]]
T1Line(sigs, type, fanins, neg) ==
  [kind |-> "GATE", sigs |-> sigs, type |-> type, fanins |-> fanins, neg |-> neg]

\* TYPES of phase_assignment.py and of Gradual_ILP.py
TYPES == [script_ \in {"phase_assignment", "Gradual_ILP"} |->
            IF script_ = "phase_assignment"
            THEN ("0" :> "PI") @@ ("1" :> "AA") @@ ("2" :> "AS") @@ ("3" :> "SA") @@ ("4" :> "FA")
            ELSE ("0" :> "AA") @@ ("1" :> "AS") @@ ("2" :> "SA")]

T1Keys == <<"XOR", "MAJ", "MIN", "OR", "NOR">>

\* variant: the declared type is kept
Primitive_KeepsType(_sig, _type, _fanins, _in_neg) ==
  [sig |-> _sig, type |-> _type, fanins |-> _fanins, in_neg |-> _in_neg]

\* Primitive.__init__ of phase_assignment.py: a gate without fanins becomes a PI
Primitive(_sig, _type, _fanins, _in_neg) ==
  [sig |-> _sig, type |-> IF _fanins # <<>> THEN _type ELSE "PI",
   fanins |-> _fanins, in_neg |-> _in_neg]

\* Primitive.__init__ of Gradual_ILP.py (the func field is never read)
PrimitiveDual(_sig, _type, _fanins) ==
  [sig |-> _sig, type |-> _type, fanins |-> _fanins, in_neg |-> <<>>]

\* zip(['XOR','MAJ','MIN','OR','NOR'], _all_sig_str.split('|')) without the '0' entries
Siblings(sigs) ==
  LET n == IF Len(sigs) < 5 THEN Len(sigs) ELSE 5
      RECURSIVE Pick(_)
      Pick(k) == IF k > n THEN <<>>
                 ELSE (IF sigs[k] # 0 THEN << <<T1Keys[k], sigs[k]>> >> ELSE <<>>) \o Pick(k + 1)
  IN  Pick(1)

SiblingValues(sib) == [k \in DOMAIN sib |-> sib[k][2]]

\* parse_specs of phase_assignment.py, one line: the new dictionaries or the exception
parse_line_merged(items, t1_cells, ln, first) ==
  IF first
  THEN [err |-> "", items |-> PutAll(items, [k \in DOMAIN ln.sigs |->
                                               Primitive(ln.sigs[k], "PI", <<>>, <<>>)]),
        t1_cells |-> t1_cells]
  ELSE IF ln.type \notin DOMAIN TYPES["phase_assignment"]
  THEN [err |-> "KeyError", items |-> items, t1_cells |-> t1_cells]
  ELSE LET _type == TYPES["phase_assignment"][ln.type] IN
    IF Len(ln.sigs) > 1
    THEN IF ln.type # "4" THEN [err |-> "AssertionError", items |-> items, t1_cells |-> t1_cells]
         ELSE IF ln.fanins = <<>> THEN [err |-> "ValueError", items |-> items, t1_cells |-> t1_cells]
         ELSE LET sib == Siblings(ln.sigs)
                  new == PutAll(items, [k \in DOMAIN sib |->
                                          Primitive(sib[k][2], _type, ln.fanins, ln.neg)])
              IN  IF \E k \in DOMAIN sib : sib[k][1] = "XOR"
                  THEN [err |-> "", items |-> new, t1_cells |-> Append(t1_cells, sib)]
                  ELSE [err |-> "AssertionError", items |-> new, t1_cells |-> t1_cells]
    ELSE IF ln.type = "4" THEN [err |-> "AssertionError", items |-> items, t1_cells |-> t1_cells]
         ELSE IF \E k \in DOMAIN ln.neg : ln.neg[k]
         THEN [err |-> "ValueError", items |-> items, t1_cells |-> t1_cells]
         ELSE [err |-> "", items |-> Put(items, Primitive(ln.sigs[1], _type, ln.fanins, <<>>)),
               t1_cells |-> t1_cells]

\* parse_specs of Gradual_ILP.py, one line
parse_line_dual(items, ln) ==
  IF ln.kind = "PI"
  THEN IF Len(ln.sigs) # 1 THEN [err |-> "ValueError", items |-> items]
       ELSE [err |-> "", items |-> Put(items, PrimitiveDual(ln.sigs[1], "PI", <<>>))]
  ELSE IF Len(ln.sigs) # 1 \/ ln.fanins = <<>> \/ (\E k \in DOMAIN ln.neg : ln.neg[k])
  THEN [err |-> "ValueError", items |-> items]
  ELSE IF ln.type \notin DOMAIN TYPES["Gradual_ILP"]
  THEN [err |-> "KeyError", items |-> items]
  ELSE [err |-> "", items |-> Put(items, PrimitiveDual(ln.sigs[1], TYPES["Gradual_ILP"][ln.type], ln.fanins))]

(***************************************************************************)
(* What one visit of the encoding loop adds to the model: the new          *)
(* variables, constraints and cost terms, or the exception it raises.      *)
(***************************************************************************)
NewIntVar(lo, hi, name) == [name |-> name, lo |-> lo, hi |-> hi]
NewBoolVar(name) == [name |-> name, lo |-> 0, hi |-> 1]

Nothing == [err |-> "", vars |-> <<>>, cons |-> <<>>, expr |-> <<>>, rules |-> <<>>]
Raise(e) == [Nothing EXCEPT !.err = e]
Emit(acc, vs, cs, es) ==
  [acc EXCEPT !.vars = @ \o vs, !.cons = @ \o cs, !.expr = @ \o es]

\* variant: the consumers are counted while the gates are visited, up to the
\* gate being encoded
fanout_at_visit(sig) ==
  Cardinality({hk \in (1..i) \X (1..MaxFanins) :
                 /\ hk[1] \in DOMAIN all_signals
                 /\ all_signals[hk[1]].type # "PI"
                 /\ hk[2] \in DOMAIN all_signals[hk[1]].fanins
                 /\ all_signals[hk[1]].fanins[hk[2]] = sig})

\* fanout[sig], read while a gate is encoded
fanout_at(sig) == Count(fanout, sig)

\* variant: only an AS signal without any consumer counts
is_true_AS_unused(p) == (p.type = "AS") /\ (Count(fanout, p.sig) = 0)

\* true-AS source: an AS signal with exactly one consumer
is_true_AS(p) == (p.type = "AS") /\ (fanout_at(p.sig) = 1)

(***************************************************************************)
(* phase_assignment.py: the branches of the encoding loop.                 *)
(***************************************************************************)
\* variant: only the first fanin is ordered before the gate
AAOrder_FirstOnly(sa, sb, sg) == << Le(sa, sg) >>

\* the ordering constraints of an AA gate: neither fanin is later than the gate
AAOrder(sa, sb, sg) == << Le(sa, sg), Le(sb, sg) >>

\* variant: the smaller of the two differences is divided
AACost_MinDiff(max_diff, div_val, sa, sb, sg) ==
  << MinEquality(Var(max_diff), << Minus(sg, sa), Minus(sg, sb) >>),
     DivisionEquality(Var(div_val), Var(max_diff), NPH) >>

\* the cost of an AA gate: the larger of the two differences to its fanins,
\* divided by the number of phases
AACost(max_diff, div_val, sa, sb, sg) ==
  << MaxEquality(Var(max_diff), << Minus(sg, sa), Minus(sg, sb) >>),
     DivisionEquality(Var(div_val), Var(max_diff), NPH) >>

EncodeAA(g) ==
  IF Len(g.fanins) # 2 THEN Raise("AssertionError")
  ELSE LET a_sig == g.fanins[1]
           b_sig == g.fanins[2]
       IN IF ~Has(all_signals, a_sig) \/ ~Has(all_signals, b_sig) THEN Raise("KeyError")
          ELSE LET n == Len(model.vars)
                   max_diff == n + 1
                   div_val == n + 2
                   sg == Var(Sigma[g.sig])
                   sa == Var(Sigma[a_sig])
                   sb == Var(Sigma[b_sig])
               IN Emit(Nothing,
                       << NewIntVar(0, SigmaMax, <<"max", a_sig, b_sig>>),
                          NewIntVar(0, SigmaMax, <<"div", a_sig, b_sig>>) >>,
                       AACost(max_diff, div_val, sa, sb, sg) \o AAOrder(sa, sb, sg),
                       << Var(div_val) >>)

\* variant: the gate may share the timing of its fanin
ASOrder_NotStrict(sp, sg) == Le(sp, sg)

\* the ordering constraint of an AS edge: the gate is strictly later than its fanin
ASOrder(sp, sg) == Lt(sp, sg)

\* variant: the delta of an SA edge, rounded up
ASCost_RoundedUp(delta, div_val, sp, sg) ==
  << Eq(Var(delta), Plus(Minus(sg, sp), Const(NPH - 1))),
     DivisionEquality(Var(div_val), Var(delta), NPH) >>

\* the cost of an AS edge: the difference to the fanin, divided by the number
\* of phases
ASCost(delta, div_val, sp, sg) ==
  << Eq(Var(delta), Minus(sg, sp)),
     DivisionEquality(Var(div_val), Var(delta), NPH) >>

RECURSIVE EncodeASFrom(_, _, _)
EncodeASFrom(g, k, acc) ==
  IF k > Len(g.fanins) THEN acc
  ELSE LET p_sig == g.fanins[k] IN
    IF p_sig \notin DOMAIN Sigma THEN [acc EXCEPT !.err = "KeyError"]
    ELSE LET n == Len(model.vars) + Len(acc.vars)
             delta == n + 1
             div_val == n + 2
             sg == Var(Sigma[g.sig])
             sp == Var(Sigma[p_sig])
         IN EncodeASFrom(g, k + 1,
              Emit(acc,
                   << NewIntVar(0, SigmaMax, <<"delta", p_sig, g.sig>>),
                      NewIntVar(0, SigmaMax, <<"div", p_sig, g.sig>>) >>,
                   << ASOrder(sp, sg) >> \o ASCost(delta, div_val, sp, sg),
                   << Var(div_val) >>))

EncodeAS(g) == EncodeASFrom(g, 1, Nothing)

\* variant: no fanin has to be strictly earlier
SAOrder_NeverStrict(true_AS, sp, sg) == Le(sp, sg)

\* the ordering constraint of an SA edge: a true-AS fanin may share the timing
\* of the gate, any other fanin is strictly earlier
SAOrder(true_AS, sp, sg) == IF true_AS THEN Le(sp, sg) ELSE Lt(sp, sg)

\* variant: the timing difference is divided as it is
SACost_RoundedDown(delta, div_val, sp, sg) ==
  << Eq(Var(delta), Minus(sg, sp)),
     DivisionEquality(Var(div_val), Var(delta), NPH) >>

\* the cost of an SA edge: the timing difference plus NPH - 1, divided by NPH
SACost(delta, div_val, sp, sg) ==
  << Eq(Var(delta), Plus(Minus(sg, sp), Const(NPH - 1))),
     DivisionEquality(Var(div_val), Var(delta), NPH) >>

RECURSIVE EncodeSAFrom(_, _, _)
EncodeSAFrom(g, k, acc) ==
  IF k > Len(g.fanins) THEN acc
  ELSE LET p_sig == g.fanins[k] IN
    IF ~Has(all_signals, p_sig) THEN [acc EXCEPT !.err = "KeyError"]
    ELSE LET p == Get(all_signals, p_sig)
             n == Len(model.vars) + Len(acc.vars)
             delta == n + 1
             div_val == n + 2
             sg == Var(Sigma[g.sig])
             sp == Var(Sigma[p_sig])
         IN EncodeSAFrom(g, k + 1,
              Emit(acc,
                   << NewIntVar(0, SigmaMax, <<"delta_sa", p_sig, g.sig>>),
                      NewIntVar(0, SigmaMax, <<"div", p_sig, g.sig>>) >>,
                   << SAOrder(is_true_AS(p), sp, sg) >> \o SACost(delta, div_val, sp, sg),
                   << Var(div_val) >>))

EncodeSA(g) == EncodeSAFrom(g, 1, Nothing)

\* index of the first T1 cell that lists sig, 0 when there is none
CellOf(sig) ==
  LET hits == {c \in DOMAIN all_t1_cells : sig \in Range(SiblingValues(all_t1_cells[c]))}
  IN  IF hits = {} THEN 0 ELSE SetMin(hits)

\* variant: the negation of an input is not looked at
incr_Sigma_AAOnly(g) ==
  [k \in DOMAIN g.fanins |->
     IF Get(all_signals, g.fanins[k]).type = "AA" THEN 1 ELSE 0]

\* incr_Sigma: one more unit for an AA fanin and for a negated AS/SA fanin
incr_Sigma(g) ==
  [k \in DOMAIN g.fanins |->
     LET p == Get(all_signals, g.fanins[k])
     IN  IF (p.type = "AA") \/ (p.type \in {"AS", "SA"} /\ g.in_neg[k]) THEN 1 ELSE 0]

\* variant: the first bound is one unit short
T1Bounds_OffByOne(T, MIN, MED, MAX) ==
  << Gt(Var(T), Plus(Var(MIN), Const(1))),
     Gt(Var(T), Plus(Var(MED), Const(1))),
     Gt(Var(T), Var(MAX)) >>

\* the three lower bounds of the timing of a T1 cell
T1Bounds(T, MIN, MED, MAX) ==
  << Gt(Var(T), Plus(Var(MIN), Const(2))),
     Gt(Var(T), Plus(Var(MED), Const(1))),
     Gt(Var(T), Var(MAX)) >>

\* variant: the median is taken to be the second fanin
MedEquality_SecondFanin(MED, MIN, MAX, eff) == Eq(Var(MED), eff[2])

\* ABS_MED: what is left of the sum of the three effective timings without
\* the minimum and the maximum
MedEquality(MED, MIN, MAX, eff) ==
  Eq(Var(MED), Minus(Minus(Plus(Plus(eff[1], eff[2]), eff[3]), Var(MIN)), Var(MAX)))

EncodeFA(g) ==
  IF CellOf(g.sig) = 0 THEN Raise("ValueError")
  ELSE IF Len(g.fanins) # 3 THEN Raise("AssertionError")
  ELSE IF \E k \in DOMAIN g.fanins : ~Has(all_signals, g.fanins[k]) THEN Raise("KeyError")
  ELSE
    LET sibling_list == SiblingValues(all_t1_cells[CellOf(g.sig)])
        n == Len(model.vars)
        ABS_MIN == n + 1
        ABS_MAX == n + 2
        ABS_MED == n + 3
        T1_XOR_SIGMA == n + 4
        MED_MIN_diff_TMP == n + 5
        MED_MIN_diff == n + 6
        MAX_MED_diff_TMP == n + 7
        MAX_MED_diff == n + 8
        MAX_MIN_diff_TMP == n + 9
        MAX_MIN_diff == n + 10
        FLOOR_DIFF_MIN_TMP == n + 11
        FLOOR_DIFF_MIN == n + 12
        FLOOR_DIFF_MED_TMP == n + 13
        FLOOR_DIFF_MED == n + 14
        FLOOR_DIFF_MAX_TMP == n + 15
        FLOOR_DIFF_MAX == n + 16
        MIN_FLAG == n + 17
        MED_FLAG == n + 18
        inc == incr_Sigma(g)
        eff == [k \in 1..3 |-> Plus(Var(Sigma[g.fanins[k]]), Const(inc[k]))]
        nm(s) == <<s, g.sig, 0>>
    IN Emit(Nothing,
         << NewIntVar(0, SigmaMax, nm("absmin")), NewIntVar(0, SigmaMax, nm("absmax")),
            NewIntVar(0, SigmaMax, nm("absmed")), NewIntVar(0, SigmaMax, nm("sigma_xor")),
            NewIntVar(0, SigmaMax, nm("mod_med_min_diff_tmp")),
            NewIntVar(0, SigmaMax, nm("mod_med_min_diff")),
            NewIntVar(0, SigmaMax, nm("mod_max_med_diff_tmp")),
            NewIntVar(0, SigmaMax, nm("mod_max_med_diff")),
            NewIntVar(0, SigmaMax, nm("mod_max_min_diff_tmp")),
            NewIntVar(0, SigmaMax, nm("mod_max_min_diff")),
            NewIntVar(-SigmaMax, SigmaMax, nm("floor_diff_min_tmp")),
            NewIntVar(0, SigmaMax, nm("floor_diff_min")),
            NewIntVar(0, SigmaMax, nm("floor_diff_med_tmp")),
            NewIntVar(0, SigmaMax, nm("floor_diff_med")),
            NewIntVar(0, SigmaMax, nm("floor_diff_max_tmp")),
            NewIntVar(0, SigmaMax, nm("floor_diff_max")),
            NewBoolVar(nm("min_flag")), NewBoolVar(nm("med_flag")) >>,
         << MinEquality(Var(ABS_MIN), eff),
            MaxEquality(Var(ABS_MAX), eff),
            MedEquality(ABS_MED, ABS_MIN, ABS_MAX, eff) >>
         \o T1Bounds(T1_XOR_SIGMA, ABS_MIN, ABS_MED, ABS_MAX) \o
         << Eq(Var(MED_MIN_diff_TMP), Minus(Var(ABS_MED), Var(ABS_MIN))),
            ModuloEquality(Var(MED_MIN_diff), Var(MED_MIN_diff_TMP), NPH),
            Eq(Var(MAX_MED_diff_TMP), Minus(Var(ABS_MAX), Var(ABS_MED))),
            ModuloEquality(Var(MAX_MED_diff), Var(MAX_MED_diff_TMP), NPH),
            Eq(Var(MAX_MIN_diff_TMP), Minus(Var(ABS_MAX), Var(ABS_MIN))),
            ModuloEquality(Var(MAX_MIN_diff), Var(MAX_MIN_diff_TMP), NPH),
            Eq(Var(FLOOR_DIFF_MIN_TMP), Plus(Minus(Var(T1_XOR_SIGMA), Var(ABS_MIN)), Const(-1))),
            DivisionEquality(Var(FLOOR_DIFF_MIN), Var(FLOOR_DIFF_MIN_TMP), NPH),
            Eq(Var(FLOOR_DIFF_MED_TMP), Plus(Minus(Var(T1_XOR_SIGMA), Var(ABS_MED)), Const(-1))),
            DivisionEquality(Var(FLOOR_DIFF_MED), Var(FLOOR_DIFF_MED_TMP), NPH),
            Eq(Var(FLOOR_DIFF_MAX_TMP), Plus(Minus(Var(T1_XOR_SIGMA), Var(ABS_MAX)), Const(-1))),
            DivisionEquality(Var(FLOOR_DIFF_MAX), Var(FLOOR_DIFF_MAX_TMP), NPH),
            OnlyEnforceIf(Eq(Var(MED_MIN_diff), Const(0)), MIN_FLAG),
            OnlyEnforceIf(Eq(Var(FLOOR_DIFF_MIN), Const(0)), MIN_FLAG),
            OnlyEnforceIf(Eq(Var(MAX_MED_diff), Const(0)), MED_FLAG),
            OnlyEnforceIf(Eq(Var(FLOOR_DIFF_MED), Const(0)), MED_FLAG) >>
           \o [k \in DOMAIN sibling_list |-> Eq(Var(Sigma[sibling_list[k]]), Var(T1_XOR_SIGMA))],
         << Var(FLOOR_DIFF_MIN), Var(FLOOR_DIFF_MED), Var(FLOOR_DIFF_MAX),
            Var(MIN_FLAG), Var(MED_FLAG) >>)

(***************************************************************************)
(* Gradual_ILP.py: the reification helpers and the branches of the loop.   *)
(* Each helper returns the variable it creates (index v) and its           *)
(* constraints.                                                            *)
(***************************************************************************)
\* NPH*S[x] + Phi[x]
Timing(x) == Plus(Scale(NPH, Var(S[x])), Var(Phi[x]))

\* variant: the clocked flag is ignored
add_fanin_constraints_unclocked(v, p, g, clocked) ==
  << OnlyEnforceIf(Eq(Var(S[g.sig]), Var(S[p.sig])), v),
     OnlyEnforceIf(Gt(Var(S[g.sig]), Var(S[p.sig])), -v),
     OnlyEnforceIf(Ge(Var(Phi[g.sig]), Var(Phi[p.sig])), v) >>

add_fanin_constraints(v, p, g, clocked) ==
  << OnlyEnforceIf(Eq(Var(S[g.sig]), Var(S[p.sig])), v),
     OnlyEnforceIf(Gt(Var(S[g.sig]), Var(S[p.sig])), -v),
     IF clocked THEN OnlyEnforceIf(Gt(Var(Phi[g.sig]), Var(Phi[p.sig])), v)
                ELSE OnlyEnforceIf(Ge(Var(Phi[g.sig]), Var(Phi[p.sig])), v) >>

\* variant: the two signals are compared the other way round
varphi_le_swapped(v, a, b) ==
  << OnlyEnforceIf(Le(Var(Phi[b.sig]), Var(Phi[a.sig])), v),
     OnlyEnforceIf(Gt(Var(Phi[b.sig]), Var(Phi[a.sig])), -v) >>

varphi_le(v, a, b) ==
  << OnlyEnforceIf(Le(Var(Phi[a.sig]), Var(Phi[b.sig])), v),
     OnlyEnforceIf(Gt(Var(Phi[a.sig]), Var(Phi[b.sig])), -v) >>

varphi_lt(v, a, b) ==
  << OnlyEnforceIf(Lt(Var(Phi[a.sig]), Var(Phi[b.sig])), v),
     OnlyEnforceIf(Ge(Var(Phi[a.sig]), Var(Phi[b.sig])), -v) >>

phi_lt(v, p, g) ==
  << OnlyEnforceIf(Le(Var(Phi[g.sig]), Var(Phi[p.sig])), v),
     OnlyEnforceIf(Gt(Var(Phi[g.sig]), Var(Phi[p.sig])), -v) >>

\* ILP definition of the absolute value |Sa - Sb|
AbsDelta(d, a, b) ==
  << Le(Minus(Var(S[a.sig]), Var(S[b.sig])), Var(d)),
     Le(Minus(Var(S[b.sig]), Var(S[a.sig])), Var(d)) >>

\* a_is_later: a is not earlier than b
AALater(v, a, b) ==
  << OnlyEnforceIf(Ge(Timing(a.sig), Timing(b.sig)), v),
     OnlyEnforceIf(Lt(Timing(a.sig), Timing(b.sig)), -v) >>

\* variant: the indicator places nothing
AAPlacement_None(g, a, b, v) == <<>>

\* "Stage and phase equal to a, if a is the later one", else equal to b
AAPlacement(g, a, b, v) ==
  << OnlyEnforceIf(Eq(Var(S[g.sig]), Var(S[a.sig])), v),
     OnlyEnforceIf(Eq(Var(Phi[g.sig]), Var(Phi[a.sig])), v),
     OnlyEnforceIf(Eq(Var(S[g.sig]), Var(S[b.sig])), -v),
     OnlyEnforceIf(Eq(Var(Phi[g.sig]), Var(Phi[b.sig])), -v) >>

DualAA(g) ==
  IF Len(g.fanins) # 2 THEN Raise("AssertionError")
  ELSE IF ~Has(all_signals, g.fanins[1]) \/ ~Has(all_signals, g.fanins[2]) THEN Raise("KeyError")
  ELSE LET a == Get(all_signals, g.fanins[1])
           b == Get(all_signals, g.fanins[2])
           n == Len(model.vars)
           Delta == n + 1
           a_is_later == n + 2
       IN Emit(Nothing,
               << NewIntVar(0, StageMax, <<"D", a.sig, b.sig>>),
                  NewBoolVar(<<"fanin_diff", a.sig, b.sig>>) >>,
               AbsDelta(Delta, a, b) \o
               << Ge(Timing(g.sig), Timing(a.sig)),
                  Ge(Timing(g.sig), Timing(b.sig)) >>
               \o AALater(a_is_later, a, b)
               \o AAPlacement(g, a, b, a_is_later),
               << Var(Delta) >>)

\* variant: the phase indicator is left out of the cost
DualASCost_NoPhase(g, p, Phi_cond) ==
  IF p.type = "PI"
  THEN Var(S[g.sig])
  ELSE Minus(Var(S[g.sig]), Var(S[p.sig]))

\* the cost of an AS edge: the stage difference, one less when the phase of
\* the gate is not after the phase of the fanin; a primary input is in stage 0
DualASCost(g, p, Phi_cond) ==
  IF p.type = "PI"
  THEN Minus(Var(S[g.sig]), Var(Phi_cond))
  ELSE Minus(Minus(Var(S[g.sig]), Var(S[p.sig])), Var(Phi_cond))

RECURSIVE DualASFrom(_, _, _)
DualASFrom(g, k, acc) ==
  IF k > Len(g.fanins) THEN acc
  ELSE IF ~Has(all_signals, g.fanins[k]) THEN [acc EXCEPT !.err = "KeyError"]
  ELSE LET p == Get(all_signals, g.fanins[k])
           n == Len(model.vars) + Len(acc.vars)
           Phi_cond == n + 1
           S_eq == n + 2
       IN DualASFrom(g, k + 1,
            Emit(acc,
                 << NewBoolVar(<<"Phi_cond", g.sig, p.sig>>),
                    NewBoolVar(<<"Same_S", p.sig, g.sig>>) >>,
                 varphi_le(Phi_cond, g, p) \o add_fanin_constraints(S_eq, p, g, TRUE),
                 << DualASCost(g, p, Phi_cond) >>))

DualAS(g) == DualASFrom(g, 1, Nothing)

Rule(acc, r) == [acc EXCEPT !.rules = Append(@, r)]

\* variant: only the stage is copied
PlaceAt_StageOnly(g, x, lit) ==
  << OnlyEnforceIf(Eq(Var(S[g.sig]), Var(S[x.sig])), lit) >>

\* "Place SA gate after x directly": stage and phase of x, under lit
PlaceAt(g, x, lit) ==
  << OnlyEnforceIf(Eq(Var(S[g.sig]), Var(S[x.sig])), lit),
     OnlyEnforceIf(Eq(Var(Phi[g.sig]), Var(Phi[x.sig])), lit) >>

\* variant: the unit of the storage element is left out
PlaceAfter_NoUnit(g, x, lit) ==
  << OnlyEnforceIf(Eq(Timing(g.sig), Timing(x.sig)), lit) >>

\* "Place SA gate after x with DFF": one unit after x, under lit
PlaceAfter(g, x, lit) ==
  << OnlyEnforceIf(Eq(Timing(g.sig), Plus(Timing(x.sig), Const(1))), lit) >>

\* variant: nothing is required when the indicator is 0
Dominated_HalfReified(v, a, b) ==
  << OnlyEnforceIf(Lt(Timing(a.sig), Plus(Timing(b.sig), Const(1))), v) >>

\* a_lt_b_p1: a is less than one unit after b
Dominated(v, a, b) ==
  << OnlyEnforceIf(Lt(Timing(a.sig), Plus(Timing(b.sig), Const(1))), v),
     OnlyEnforceIf(Ge(Timing(a.sig), Plus(Timing(b.sig), Const(1))), -v) >>

\* cond requires both literals (AddBoolAnd under cond)
CondAnd(cond, l1, l2) ==
  << OnlyEnforceIf(BoolAnd(<<l1, l2>>), cond) >>

\* variant: the AddBoolOr under the negation is left out
CondAndOr_AndOnly(cond, l1, l2) ==
  << OnlyEnforceIf(BoolAnd(<<l1, l2>>), cond) >>

\* cond is the conjunction of both literals (AddBoolAnd under cond, AddBoolOr
\* of the negations under its negation)
CondAndOr(cond, l1, l2) ==
  << OnlyEnforceIf(BoolAnd(<<l1, l2>>), cond),
     OnlyEnforceIf(BoolOr(<<-l1, -l2>>), -cond) >>

\* both fanins are true-AS sources: the gate sits on the later one
SABoth(acc, g, a, b) ==
  LET n == Len(model.vars) + Len(acc.vars)
      a_lt_b == n + 1
      b_le_a == n + 2
      a_le_b == n + 3
      Delta == n + 4
      cond_a == n + 5
      cond_b == n + 6
  IN Rule(Emit(acc,
       << NewBoolVar(<<"lt", a.sig, b.sig>>),
          NewBoolVar(<<"Phi_cond", b.sig, a.sig>>),
          NewBoolVar(<<"Phi_cond", a.sig, b.sig>>),
          NewIntVar(0, StageMax, <<"D", a.sig, b.sig>>),
          NewBoolVar(<<"cond_a", a.sig, b.sig>>),
          NewBoolVar(<<"cond_b", a.sig, b.sig>>) >>,
       << OnlyEnforceIf(Lt(Timing(a.sig), Timing(b.sig)), a_lt_b) >>
       \o PlaceAt(g, b, a_lt_b)
       \o varphi_le(b_le_a, b, a) \o
       << OnlyEnforceIf(Ge(Timing(a.sig), Timing(b.sig)), -a_lt_b) >>
       \o PlaceAt(g, a, -a_lt_b)
       \o varphi_le(a_le_b, a, b)
       \o AbsDelta(Delta, a, b)
       \o CondAnd(cond_a, b_le_a, a_lt_b)
       \o CondAnd(cond_b, a_le_b, -a_lt_b),
       << Minus(Minus(Plus(Var(Delta), Const(1)), Var(cond_b)), Var(cond_a)) >>),
     "both")

\* neither fanin is a true-AS source: the gate sits one unit after the later one
SANeither(acc, g, a, b) ==
  LET n == Len(model.vars) + Len(acc.vars)
      a_lt_b == n + 1
      b_lt_a == n + 2
      a_lt_b_phi == n + 3
      Delta == n + 4
      cond_a == n + 5
      cond_b == n + 6
  IN Rule(Emit(acc,
       << NewBoolVar(<<"lt", a.sig, b.sig>>),
          NewBoolVar(<<"Phi_cond", b.sig, a.sig>>),
          NewBoolVar(<<"Phi_cond", a.sig, b.sig>>),
          NewIntVar(0, StageMax, <<"D", a.sig, b.sig>>),
          NewBoolVar(<<"cond_a", a.sig, b.sig>>),
          NewBoolVar(<<"cond_b", a.sig, b.sig>>) >>,
       << OnlyEnforceIf(Lt(Timing(a.sig), Timing(b.sig)), a_lt_b) >>
       \o PlaceAfter(g, b, a_lt_b)
       \o varphi_lt(b_lt_a, b, a) \o
       << OnlyEnforceIf(Ge(Timing(a.sig), Timing(b.sig)), -a_lt_b) >>
       \o PlaceAfter(g, a, -a_lt_b)
       \o varphi_lt(a_lt_b_phi, a, b)
       \o AbsDelta(Delta, a, b)
       \o CondAndOr(cond_a, b_lt_a, a_lt_b)
       \o CondAndOr(cond_b, a_lt_b_phi, -a_lt_b),
       << Minus(Minus(Plus(Var(Delta), Const(2)), Var(cond_a)), Var(cond_b)) >>),
     "neither")

\* a is a true-AS source and b is not
SAMixed(acc, g, a, b) ==
  LET n == Len(model.vars) + Len(acc.vars)
      a_lt_b_p1 == n + 1
      Phi_cond_a == n + 2
      Phi_cond_b == n + 3
      Delta == n + 4
      cond_a == n + 5
      cond_b == n + 6
  IN Rule(Emit(acc,
       << NewBoolVar(<<"lt_p1", a.sig, b.sig>>),
          NewBoolVar(<<"Phi_cond", a.sig, b.sig>>),
          NewBoolVar(<<"Phi_cond", b.sig, a.sig>>),
          NewIntVar(0, StageMax, <<"D", a.sig, b.sig>>),
          NewBoolVar(<<"cond_a", a.sig, b.sig>>),
          NewBoolVar(<<"cond_b", a.sig, b.sig>>) >>,
       Dominated(a_lt_b_p1, a, b)
       \o PlaceAfter(g, b, a_lt_b_p1)
       \o PlaceAt(g, a, -a_lt_b_p1)
       \o phi_lt(Phi_cond_a, a, b)
       \o phi_lt(Phi_cond_b, b, a)
       \o AbsDelta(Delta, a, b)
       \o CondAnd(cond_a, Phi_cond_a, -a_lt_b_p1)
       \o CondAnd(cond_b, Phi_cond_b, a_lt_b_p1),
       << Plus(Plus(Minus(Minus(Var(Delta), Var(cond_a)), Var(cond_b)), Var(a_lt_b_p1)), Const(1)) >>),
     "mixed")

\* variant: the fanins trade places, the flags do not
SASwap_FlagsKept(a, b, a_t, b_t) ==
  IF ~a_t /\ b_t THEN [a |-> b, b |-> a, a_t |-> a_t, b_t |-> b_t]
                 ELSE [a |-> a, b |-> b, a_t |-> a_t, b_t |-> b_t]

\* the swap of the third `if`: a, b and both flags trade places
SASwap(a, b, a_t, b_t) ==
  IF ~a_t /\ b_t THEN [a |-> b, b |-> a, a_t |-> b_t, b_t |-> a_t]
                 ELSE [a |-> a, b |-> b, a_t |-> a_t, b_t |-> b_t]

DualSA(g) ==
  IF Len(g.fanins) # 2 THEN Raise("AssertionError")
  ELSE IF ~Has(all_signals, g.fanins[1]) \/ ~Has(all_signals, g.fanins[2]) THEN Raise("KeyError")
  ELSE LET a == Get(all_signals, g.fanins[1])
           b == Get(all_signals, g.fanins[2])
           a_is_true_AS == is_true_AS(a)
           b_is_true_AS == is_true_AS(b)
           acc1 == IF a_is_true_AS /\ b_is_true_AS THEN SABoth(Nothing, g, a, b) ELSE Nothing
           acc2 == IF ~a_is_true_AS /\ ~b_is_true_AS THEN SANeither(acc1, g, a, b) ELSE acc1
           sw == SASwap(a, b, a_is_true_AS, b_is_true_AS)
       IN IF sw.a_t /\ ~sw.b_t THEN SAMixed(acc2, g, sw.a, sw.b) ELSE acc2

(***************************************************************************)
(* Input files.                                                            *)
(***************************************************************************)
Scripts == {"phase_assignment", "Gradual_ILP"}

\* the type code of a type name in the TYPES table of a script
Code(sc, name) ==
  IF \E c \in DOMAIN TYPES[sc] : TYPES[sc][c] = name
  THEN CHOOSE c \in DOMAIN TYPES[sc] : TYPES[sc][c] = name
  ELSE "?"

Gate(sc, sig, name, fanins) == GateLine(sig, Code(sc, name), fanins)

\* phase_assignment.py reads all primary inputs from the first line,
\* Gradual_ILP.py one per "PI" line
FileOf(sc, pis, gates) ==
  IF sc = "phase_assignment" THEN << PILine(pis) >> \o gates
  ELSE [k \in DOMAIN pis |-> PILine(<< pis[k] >>)] \o gates

\* the example network: PIs 1, 2; AS 3 <- 1; AS 4 <- 2; SA 5 <- 3, 4
ExampleScenario(sc) ==
  FileOf(sc, <<1, 2>>, << Gate(sc, 3, "AS", <<1>>), Gate(sc, 4, "AS", <<2>>),
                          Gate(sc, 5, "SA", <<3, 4>>) >>)

\* gate 3 reads gate 4, which is declared on a later line
ForwardScenario(sc) ==
  FileOf(sc, <<1, 2>>, << Gate(sc, 3, "AS", <<4>>), Gate(sc, 4, "AA", <<1, 2>>) >>)

\* gates 3 and 4 read each other
CyclicScenarios(sc) ==
  { FileOf(sc, <<1>>, << Gate(sc, 3, t3, f3), Gate(sc, 4, t4, f4) >>) :
      t3 \in {"AS"}, f3 \in {<<4>>}, t4 \in {"AS", "AA", "SA"}, f4 \in {<<3>>, <<3, 1>>, <<3, 3>>} }
  \cup { FileOf(sc, <<1>>, << Gate(sc, 3, "AA", <<4, 1>>), Gate(sc, 4, "AA", <<3, 1>>) >>) }

\* one gate over two primary inputs, with every fanin list up to MaxFanins;
\* id 3 is the gate itself and id 4 is declared nowhere
FaninLists == UNION {[1..n -> 1..4] : n \in 0..MaxFanins}
OneGateFiles(sc) ==
  { FileOf(sc, <<1, 2>>, << GateLine(3, t, f) >>) : t \in DOMAIN TYPES[sc], f \in FaninLists }
  \cup { FileOf(sc, <<1, 2>>, << GateLine(3, "9", <<1>>) >>) }

\* an SA gate behind one gate: all true-AS combinations of its two fanins
SAFiles(sc) ==
  { FileOf(sc, <<1, 2>>, << Gate(sc, 3, t3[1], t3[2]), Gate(sc, 4, "SA", f) >>) :
      t3 \in {<<"AS", <<1>>>>, <<"AA", <<1, 2>>>>, <<"SA", <<1, 2>>>>}, f \in [1..2 -> 1..3] }

\* T1 cells (phase_assignment.py only): fanins a PI, an AA gate and an AS gate
T1Files ==
  { << PILine(<<1, 2>>), GateLine(3, "1", <<1, 2>>), GateLine(4, "2", <<2>>),
       T1Line(sigs, "4", <<1, 3, 4>>, neg) >> :
      sigs \in {<<5, 6>>, <<5, 0, 6, 0, 7>>, <<5, 0>>}, neg \in [1..3 -> BOOLEAN] }
  \cup { << PILine(<<1, 2>>), T1Line(<<5, 6>>, "4", f, [k \in DOMAIN f |-> FALSE]) >> :
           f \in {<<1, 2, 1>>, <<1, 2>>, <<1, 2, 8>>, <<>>} }
  \cup { << PILine(<<1, 2>>), T1Line(<<0, 6>>, "4", <<1, 2, 1>>, <<FALSE, FALSE, FALSE>>) >>,
         << PILine(<<1, 2>>), T1Line(<<5, 6>>, "3", <<1, 2>>, <<FALSE, FALSE>>) >>,
         << PILine(<<1, 2>>), GateLine(5, "4", <<1, 2, 1>>) >>,
         << PILine(<<1, 2>>), T1Line(<<5>>, "2", <<1>>, <<TRUE>>) >> }
  \cup { << PILine(<<1, 2>>), GateLine(3, "3", <<1, 2>>),
           T1Line(<<5, 6>>, "4", <<1, 3, 2>>, <<FALSE, neg, FALSE>>) >> : neg \in BOOLEAN }
  \cup { << PILine(<<1, 2>>), T1Line(<<5, 0>>, "4", <<1, 2, 1>>, <<FALSE, FALSE, FALSE>>),
           T1Line(<<7, 0>>, "4", <<5, 1, 2>>, <<TRUE, FALSE, FALSE>>) >> }

Files(sc) ==
  {ExampleScenario(sc), ForwardScenario(sc)} \cup CyclicScenarios(sc)
    \cup OneGateFiles(sc) \cup SAFiles(sc)
    \cup (IF sc = "phase_assignment" THEN T1Files ELSE {})

(***************************************************************************)
(* The run of a script.                                                    *)
(***************************************************************************)
\* what the run has printed; read tells whether solver.Value was called
NoPrint == [status |-> "", objective |-> -1, values |-> <<>>, read |-> FALSE]

\* what solver.Value hands back when the response holds no solution, if it
\* hands back anything: the build decides
NoSolutionValues == {-1, 0}

\* cp_model.CpSolver(): a solver with the default parameters, not yet used
CpSolver == [max_time_in_seconds |-> "inf", solves |-> 0]

\* the value the script gives solver.parameters.max_time_in_seconds before
\* it solves: an argument of the command line, or nothing (Gradual_ILP.py)
max_time_in_seconds(sc) == IF sc = "Gradual_ILP" THEN "inf" ELSE "argv"

\* no earlier run of the script to compare with
NoRun == [done |-> FALSE, vars |-> {}, cons |-> {}, terms |-> <<>>, objective |-> -1]

\* what parse of config_solver_union.py returns, before the first line
NoParse ==
  [all_vars |-> {}, helper_vars |-> {}, sa_dffs |-> {}, phase_constr |-> <<>>,
   buffer_constr |-> <<>>, t1_required_dff_constr |-> <<>>, t1_constr |-> <<>>]

\* the state of a run before its first line is read
Fresh ==
  /\ pc = "parse"
  /\ i = 1
  /\ all_signals = <<>>
  /\ all_t1_cells = <<>>
  /\ fanout = <<>>
  /\ Sigma = <<>>
  /\ S = <<>>
  /\ Phi = <<>>
  /\ model = [vars |-> <<>>, cons |-> <<>>]
  /\ expr = <<>>
  /\ already_processed = <<>>
  /\ cases = <<>>
  /\ minimized = FALSE
  /\ status = ""
  /\ value = <<>>
  /\ err = ""
  /\ printed = NoPrint
  /\ solver = CpSolver
  /\ parsed = NoParse
  /\ cpsat_vars = <<>>
  /\ first_run = NoRun

Init ==
  /\ script \in Scripts
  /\ NPH \in (IF script = "phase_assignment" THEN 1..MaxNPH ELSE {DualNPH})
  /\ file \in Files(script)
  /\ Fresh

Fail(e) == pc' = "error" /\ err' = e

\* parse_specs: one line of the file
ParseLine ==
  /\ pc = "parse"
  /\ i <= Len(file)
  /\ LET r == IF script = "phase_assignment"
              THEN parse_line_merged(all_signals, all_t1_cells, file[i], i = 1)
              ELSE [t1_cells |-> all_t1_cells] @@ parse_line_dual(all_signals, file[i])
     IN IF r.err # ""
        THEN Fail(r.err) /\ UNCHANGED <<i, all_signals, all_t1_cells>>
        ELSE /\ all_signals' = r.items
             /\ all_t1_cells' = r.t1_cells
             /\ i' = i + 1
             /\ UNCHANGED <<pc, err>>
  /\ UNCHANGED <<script, first_run, solver, parsed, cpsat_vars, NPH, file, fanout, Sigma, S, Phi, model, expr,
                 already_processed, cases, minimized, status, value, printed>>

ParseDone ==
  /\ pc = "parse"
  /\ i > Len(file)
  /\ pc' = "alloc"
  /\ i' = 1
  /\ UNCHANGED <<script, first_run, solver, parsed, cpsat_vars, NPH, file, all_signals, all_t1_cells, fanout, Sigma, S, Phi,
                 model, expr, already_processed, cases, minimized, status, value, err, printed>>

\* variant: a primary input gets the bounds of a gate
SigmaVar_FullRange(g) == NewIntVar(0, SigmaMax, <<"SIGMA", g.sig, 0>>)

\* the sigma variable of a signal: a primary input stays in the first stage
SigmaVar(g) ==
  IF g.type = "PI" THEN NewIntVar(0, NPH - 1, <<"SIGMA", g.sig, 0>>)
                   ELSE NewIntVar(0, SigmaMax, <<"SIGMA", g.sig, 0>>)

\* the stage variable of a signal: a primary input is fixed to stage 0
StageVar(g) ==
  IF g.type = "PI" THEN NewIntVar(0, 0, <<"S", g.sig, 0>>)
                   ELSE NewIntVar(0, StageMax, <<"S", g.sig, 0>>)

\* variant: a gate that lists a signal twice counts once
CountFanins_Once(d, g) ==
  IF g.type = "PI" THEN d ELSE IncrAll(d, SetToSeq(Range(g.fanins)))

\* fanout[p_sig] += 1 for every entry of the fanin list of a gate
CountFanins(d, g) == IF g.type = "PI" THEN d ELSE IncrAll(d, g.fanins)

\* the allocation loop of phase_assignment.py, one signal
AllocSigma ==
  /\ pc = "alloc"
  /\ script = "phase_assignment"
  /\ i <= Len(all_signals)
  /\ LET g == all_signals[i]
         k == Len(model.vars) + 1
     IN /\ model' = [model EXCEPT !.vars = Append(@, SigmaVar(g))]
        /\ Sigma' = [s \in DOMAIN Sigma \cup {g.sig} |-> IF s = g.sig THEN k ELSE Sigma[s]]
        /\ fanout' = CountFanins(fanout, g)
  /\ i' = i + 1
  /\ UNCHANGED <<script, first_run, solver, parsed, cpsat_vars, NPH, file, pc, all_signals, all_t1_cells, S, Phi, expr,
                 already_processed, cases, minimized, status, value, err, printed>>

\* the allocation loop of Gradual_ILP.py, one signal
AllocSPhi ==
  /\ pc = "alloc"
  /\ script = "Gradual_ILP"
  /\ i <= Len(all_signals)
  /\ LET g == all_signals[i]
         k == Len(model.vars) + 1
     IN /\ model' = [model EXCEPT !.vars =
                       @ \o << NewIntVar(0, NPH - 1, <<"phi", g.sig, 0>>), StageVar(g) >>]
        /\ Phi' = [s \in DOMAIN Phi \cup {g.sig} |-> IF s = g.sig THEN k ELSE Phi[s]]
        /\ S' = [s \in DOMAIN S \cup {g.sig} |-> IF s = g.sig THEN k + 1 ELSE S[s]]
        /\ fanout' = CountFanins(fanout, g)
  /\ i' = i + 1
  /\ UNCHANGED <<script, first_run, solver, parsed, cpsat_vars, NPH, file, pc, all_signals, all_t1_cells, Sigma, expr,
                 already_processed, cases, minimized, status, value, err, printed>>

AllocDone ==
  /\ pc = "alloc"
  /\ i > Len(all_signals)
  /\ pc' = "encode"
  /\ i' = 1
  /\ UNCHANGED <<script, first_run, solver, parsed, cpsat_vars, NPH, file, all_signals, all_t1_cells, fanout, Sigma, S, Phi,
                 model, expr, already_processed, cases, minimized, status, value, err, printed>>

\* variant: a failed lookup is skipped and the loop goes on
Apply_SkipsKeyError(r) ==
  IF r.err \notin {"", "KeyError"}
  THEN Fail(r.err) /\ UNCHANGED <<i, model, expr>>
  ELSE /\ model' = [vars |-> model.vars \o r.vars, cons |-> model.cons \o r.cons]
       /\ expr' = expr \o r.expr
       /\ i' = i + 1
       /\ UNCHANGED <<pc, err>>

\* the effect of one visit of the encoding loop on the model
Apply(r) ==
  IF r.err # ""
  THEN Fail(r.err) /\ UNCHANGED <<i, model, expr>>
  ELSE /\ model' = [vars |-> model.vars \o r.vars, cons |-> model.cons \o r.cons]
       /\ expr' = expr \o r.expr
       /\ i' = i + 1
       /\ UNCHANGED <<pc, err>>

Visiting(type) == pc = "encode" /\ i <= Len(all_signals) /\ all_signals[i].type = type

\* a primary input adds nothing
VisitPI ==
  /\ Visiting("PI")
  /\ i' = i + 1
  /\ UNCHANGED <<script, first_run, solver, parsed, cpsat_vars, NPH, file, pc, all_signals, all_t1_cells, fanout, Sigma, S, Phi,
                 model, expr, already_processed, cases, minimized, status, value, err, printed>>

VisitAA ==
  /\ Visiting("AA")
  /\ Apply(IF script = "phase_assignment" THEN EncodeAA(all_signals[i]) ELSE DualAA(all_signals[i]))
  /\ UNCHANGED <<script, first_run, solver, parsed, cpsat_vars, NPH, file, all_signals, all_t1_cells, fanout, Sigma, S, Phi,
                 already_processed, cases, minimized, status, value, printed>>

VisitAS ==
  /\ Visiting("AS")
  /\ Apply(IF script = "phase_assignment" THEN EncodeAS(all_signals[i]) ELSE DualAS(all_signals[i]))
  /\ UNCHANGED <<script, first_run, solver, parsed, cpsat_vars, NPH, file, all_signals, all_t1_cells, fanout, Sigma, S, Phi,
                 already_processed, cases, minimized, status, value, printed>>

\* cases records, per SA gate of Gradual_ILP.py, the case rules that ran
VisitSA ==
  /\ Visiting("SA")
  /\ LET g == all_signals[i]
         r == IF script = "phase_assignment" THEN EncodeSA(g) ELSE DualSA(g)
     IN /\ Apply(r)
        /\ cases' = IF script = "Gradual_ILP" /\ r.err = ""
                    THEN Append(cases, [sig |-> g.sig, rules |-> r.rules])
                    ELSE cases
  /\ UNCHANGED <<script, first_run, solver, parsed, cpsat_vars, NPH, file, all_signals, all_t1_cells, fanout, Sigma, S, Phi,
                 already_processed, minimized, status, value, printed>>

\* variant: only the visited member is remembered
extend_processed_member(g) == Append(already_processed, g.sig)

\* already_processed.extend(sibling_list.values())
extend_processed(g) == already_processed \o SiblingValues(all_t1_cells[CellOf(g.sig)])

\* a T1 output: the first visited member encodes the whole cell
VisitFA ==
  /\ Visiting("FA")
  /\ LET g == all_signals[i]
     IN IF g.sig \in Range(already_processed)
        THEN /\ i' = i + 1
             /\ UNCHANGED <<pc, err, model, expr, already_processed>>
        ELSE LET r == EncodeFA(g)
             IN /\ Apply(r)
                /\ already_processed' =
                     IF r.err = "" THEN extend_processed(g) ELSE already_processed
  /\ UNCHANGED <<script, first_run, solver, parsed, cpsat_vars, NPH, file, all_signals, all_t1_cells, fanout, Sigma, S, Phi,
                 cases, minimized, status, value, printed>>

\* model.Minimize(sum(expr)), after the last signal
Minimize ==
  /\ pc = "encode"
  /\ i > Len(all_signals)
  /\ minimized' = TRUE
  /\ pc' = "solve"
  /\ UNCHANGED <<script, first_run, solver, parsed, cpsat_vars, NPH, file, i, all_signals, all_t1_cells, fanout, Sigma, S, Phi,
                 model, expr, already_processed, cases, status, value, err, printed>>

\* solver.Solve(model): the engine answers with a status and, for OPTIMAL and
\* FEASIBLE, an assignment.  UNKNOWN needs a time budget.
Solve ==
  /\ pc = "solve"
  /\ solver' = [max_time_in_seconds |-> max_time_in_seconds(script),
                solves |-> solver.solves + 1]
  /\ \/ \E answers \in {Ranked(Solutions(model), expr)} :
          IF answers = {}
          THEN status' = "INFEASIBLE" /\ value' = <<>>
          ELSE \E best \in {Best(answers)} : \E r \in answers :
                 /\ value' = r[1]
                 /\ status' \in (IF r[2] = best THEN {"OPTIMAL", "FEASIBLE"} ELSE {"FEASIBLE"})
     \/ /\ max_time_in_seconds(script) # "inf"
        /\ status' = "UNKNOWN"
        /\ value' = <<>>
  /\ pc' = "report"
  /\ UNCHANGED <<script, first_run, parsed, cpsat_vars, NPH, file, i, all_signals, all_t1_cells, fanout, Sigma, S, Phi,
                 model, expr, already_processed, cases, minimized, err, printed>>

\* the report of phase_assignment.py: the objective and the sigma values are
\* read for OPTIMAL and FEASIBLE only
ReportMerged ==
  /\ printed' = IF status \in {"OPTIMAL", "FEASIBLE"}
                 THEN [status |-> status, objective |-> Objective(expr, value),
                       values |-> [s \in DOMAIN Sigma |-> value[Sigma[s]]],
                       read |-> TRUE]
                 ELSE [NoPrint EXCEPT !.status = status]
  /\ pc' = "done"
  /\ UNCHANGED err

\* the report of Gradual_ILP.py: the objective is read for OPTIMAL only, the
\* values of S and Phi are read whatever the status.  Without a solution the
\* first solver.Value call raises, or hands back whatever the build finds.
ReportDual ==
  IF value # <<>>
  THEN /\ printed' = [status |-> status,
                       objective |-> IF status = "OPTIMAL" THEN Objective(expr, value) ELSE -1,
                       values |-> [s \in DOMAIN S |-> <<value[S[s]], value[Phi[s]]>>],
                       read |-> TRUE]
       /\ pc' = "done"
       /\ UNCHANGED err
  ELSE \/ /\ Fail("NoSolution")
          /\ printed' = [NoPrint EXCEPT !.status = status, !.read = TRUE]
       \/ /\ \E junk \in NoSolutionValues :
               printed' = [status |-> status, objective |-> -1,
                           values |-> [s \in DOMAIN S |-> <<junk, junk>>],
                           read |-> TRUE]
          /\ pc' = "done"
          /\ UNCHANGED err

Report ==
  /\ pc = "report"
  /\ IF script = "phase_assignment" THEN ReportMerged ELSE ReportDual
  /\ UNCHANGED <<script, first_run, solver, parsed, cpsat_vars, NPH, file, i, all_signals, all_t1_cells, fanout, Sigma, S, Phi,
                 model, expr, already_processed, cases, minimized, status, value>>

Next ==
  \/ ParseLine \/ ParseDone
  \/ AllocSigma \/ AllocSPhi \/ AllocDone
  \/ VisitPI \/ VisitAA \/ VisitAS \/ VisitSA \/ VisitFA
  \/ Minimize \/ Solve \/ Report

Spec == Init /\ [][Next]_vars

(***************************************************************************)
(* Two runs of phase_assignment.py on one graph: the second reads the gate *)
(* lines of the first in another order.  The model is kept by the names    *)
(* the script gives its variables, which do not depend on the order of     *)
(* their creation.                                                         *)
(***************************************************************************)
NameOf(v) == model.vars[v].name
NamedExpr(e) == [c |-> e.c, t |-> [k \in DOMAIN e.t |-> <<e.t[k][1], NameOf(e.t[k][2])>>]]
NamedLit(l) == IF l = 0 THEN <<0, <<>>>> ELSE IF l > 0 THEN <<1, NameOf(l)>> ELSE <<-1, NameOf(-l)>>
NamedCon(c) ==
  [op |-> c.op, a |-> NamedExpr(c.a), b |-> NamedExpr(c.b),
   es |-> [k \in DOMAIN c.es |-> NamedExpr(c.es[k])], n |-> c.n,
   ls |-> [k \in DOMAIN c.ls |-> NamedLit(c.ls[k])], lit |-> NamedLit(c.lit)]

\* the variables and the constraints of the model as sets, the cost terms
\* as a multiset (how often each term occurs in expr)
NamedVars == Range(model.vars)
NamedCons == {NamedCon(model.cons[j]) : j \in DOMAIN model.cons}
NamedTerms ==
  LET named == [j \in DOMAIN expr |-> NamedExpr(expr[j])]
  IN  [t \in Range(named) |-> Cardinality({j \in DOMAIN named : named[j] = t})]

\* the graphs of the two runs: gate 3 feeds two gates; a T1 cell between
\* an AA gate and an AS gate
OrderFiles ==
  { << PILine(<<1, 2>>), GateLine(3, "2", <<1>>), GateLine(5, "3", <<3, 4>>),
       GateLine(4, "2", <<2>>), GateLine(6, "1", <<3, 1>>) >>,
    << PILine(<<1, 2>>), GateLine(3, "1", <<1, 2>>),
       T1Line(<<5, 6>>, "4", <<1, 3, 2>>, <<FALSE, FALSE, TRUE>>),
       GateLine(7, "2", <<5>>) >> }

\* the orders of n gate lines
Orders(n) == {f \in [1..n -> 1..n] : \A x, y \in 1..n : x # y => f[x] # f[y]}

InitOrder ==
  /\ script = "phase_assignment"
  /\ NPH \in 1..MaxNPH
  /\ file \in OrderFiles
  /\ Fresh

\* the script is started again on the same lines in another order, after a
\* run that ended with a proven optimum
RunPermuted ==
  /\ pc = "done"
  /\ status = "OPTIMAL"
  /\ ~first_run.done
  /\ \E f \in Orders(Len(file) - 1) :
       /\ \E k \in DOMAIN f : f[k] # k
       /\ file' = << file[1] >> \o [k \in 1..(Len(file) - 1) |-> file[1 + f[k]]]
  /\ first_run' = [done |-> TRUE, vars |-> NamedVars, cons |-> NamedCons,
                   terms |-> NamedTerms, objective |-> printed.objective]
  /\ pc' = "parse"
  /\ i' = 1
  /\ all_signals' = <<>>
  /\ all_t1_cells' = <<>>
  /\ fanout' = <<>>
  /\ Sigma' = <<>>
  /\ model' = [vars |-> <<>>, cons |-> <<>>]
  /\ expr' = <<>>
  /\ already_processed' = <<>>
  /\ minimized' = FALSE
  /\ status' = ""
  /\ value' = <<>>
  /\ printed' = NoPrint
  /\ solver' = CpSolver
  /\ UNCHANGED <<script, NPH, S, Phi, cases, err, parsed, cpsat_vars>>

NextOrder ==
  \/ ParseLine \/ ParseDone
  \/ AllocSigma \/ AllocDone
  \/ VisitPI \/ VisitAA \/ VisitAS \/ VisitSA \/ VisitFA
  \/ Minimize \/ Solve \/ Report
  \/ RunPermuted

SpecOrder == InitOrder /\ [][NextOrder]_vars

(***************************************************************************)
(* config_solver_union.py: the DFF-placement model.  A line of the file is *)
(* kept as its constraint type and its items; a variable name             *)
(* var_<fanin>_<fanout>_<sigma> is kept as its four fields, the numbers as *)
(* the sequences of their decimal digits.                                  *)
(***************************************************************************)
\* int(s) of a string of decimal digits
RECURSIVE int(_)
int(ds) == IF ds = <<>> THEN 0 ELSE 10 * int(SubSeq(ds, 1, Len(ds) - 1)) + ds[Len(ds)]

\* dff.__init__ and from_str
dff(_fanin, _fanout, _sigma) ==
  [fanin |-> int(_fanin), fanout |-> int(_fanout), sigma |-> int(_sigma)]
from_str(varname) == dff(varname[2], varname[3], varname[4])

\* t1_constr[gate_name].append(vars_here) of the defaultdict: the gates in the
\* order of their first line
append_branch(t1_constr, gate_name, vars_here) ==
  IF \E k \in DOMAIN t1_constr : t1_constr[k].gate = gate_name
  THEN [k \in DOMAIN t1_constr |->
          IF t1_constr[k].gate = gate_name
          THEN [t1_constr[k] EXCEPT !.branches = Append(@, vars_here)]
          ELSE t1_constr[k]]
  ELSE Append(t1_constr, [gate |-> gate_name, branches |-> << vars_here >>])

\* parse, one line: the new collections or the exception
parse_line_union(pr, ln, nphases) ==
  LET ok(q) == [err |-> "", parsed |-> q]
      raise(e) == [err |-> e, parsed |-> pr]
      names == IF ln.type = "T1_FANIN" THEN Tail(ln.items) ELSE ln.items
      vars_here == [k \in DOMAIN names |-> from_str(names[k])]
      sigmas == {vars_here[k].sigma : k \in DOMAIN vars_here}
      all == pr.all_vars \cup Range(vars_here)
  IN CASE ln.type \in {"HELPER", "SA_REQUIRED"} ->
            IF ln.items = <<>> THEN raise("IndexError")
            ELSE LET var == from_str(ln.items[1])
                 IN IF ln.type = "HELPER"
                    THEN ok([pr EXCEPT !.all_vars = @ \cup {var}, !.helper_vars = @ \cup {var}])
                    ELSE ok([pr EXCEPT !.all_vars = @ \cup {var}, !.sa_dffs = @ \cup {var}])
       [] ln.type = "PHASE" ->
            IF Cardinality(sigmas) # 1 THEN raise("AssertionError")
            ELSE ok([pr EXCEPT !.all_vars = all, !.phase_constr = Append(@, vars_here)])
       [] ln.type = "BUFFER" ->
            IF Cardinality(sigmas) # nphases THEN raise("AssertionError")
            ELSE IF SetMax(sigmas) - SetMin(sigmas) # nphases - 1 THEN raise("AssertionError")
            ELSE ok([pr EXCEPT !.all_vars = all, !.buffer_constr = Append(@, vars_here)])
       [] ln.type \in {"INVERTED_INPUT", "AT_LEAST_ONE"} ->
            IF Cardinality(sigmas) > nphases THEN raise("AssertionError")
            ELSE IF sigmas = {} THEN raise("ValueError")
            ELSE IF SetMax(sigmas) - SetMin(sigmas) > nphases - 1 THEN raise("AssertionError")
            ELSE ok([pr EXCEPT !.all_vars = all,
                               !.t1_required_dff_constr = Append(@, vars_here)])
       [] ln.type = "T1_FANIN" ->
            IF ln.items = <<>> \/ sigmas = {} THEN raise("ValueError")
            ELSE IF SetMax(sigmas) - SetMin(sigmas) >= nphases THEN raise("AssertionError")
            ELSE ok([pr EXCEPT !.all_vars = all,
                               !.t1_constr = append_branch(@, ln.items[1], vars_here)])
       [] OTHER -> ok(pr)

\* the order in which the loops go through the set all_vars: any fixed order
\* gives the same model up to the numbering of its variables
RECURSIVE iteration_order(_)
iteration_order(T) ==
  IF T = {} THEN <<>>
  ELSE LET key(d) == (d.fanin * 100 + d.fanout) * 100 + d.sigma
           first == CHOOSE d \in T : \A e \in T : key(d) <= key(e)
       IN  << first >> \o iteration_order(T \ {first})

\* variant: the helper variables are minimized with the others
minimized_vars_all(all_vars, helper_vars) == all_vars

\* the variables whose sum is minimized
minimized_vars(all_vars, helper_vars) == {var \in all_vars : var \notin helper_vars}

\* the constraints that fix the helper variables and the SA variables
forced(order) ==
  LET RECURSIVE from(_)
      from(k) ==
        IF k > Len(order) THEN <<>>
        ELSE (IF order[k] \in parsed.helper_vars THEN << BoolAnd(<< cpsat_vars[order[k]] >>) >> ELSE <<>>)
             \o (IF order[k] \in parsed.sa_dffs THEN << BoolAnd(<< cpsat_vars[order[k]] >>) >> ELSE <<>>)
             \o from(k + 1)
  IN  from(1)

\* the literals of a list of variables
lits(vs) == [k \in DOMAIN vs |-> cpsat_vars[vs[k]]]

\* sorted(buckets.items(), reverse=True): the variables of a branch by sigma,
\* latest first, as the list of [var, sigma, j] the two loops go through
RECURSIVE descending(_)
descending(T) == IF T = {} THEN <<>> ELSE << SetMax(T) >> \o descending(T \ {SetMax(T)})

sorted_buckets(branch) ==
  LET sigmas == descending({branch[k].sigma : k \in DOMAIN branch})
      bucket(sigma) == SelectSeq(branch, LAMBDA d : d.sigma = sigma)
      RECURSIVE from(_)
      from(x) ==
        IF x > Len(sigmas) THEN <<>>
        ELSE [j \in DOMAIN bucket(sigmas[x]) |->
                [var |-> bucket(sigmas[x])[j], sigma |-> sigmas[x], j |-> j - 1]]
             \o from(x + 1)
  IN  from(1)

\* one branch of a T1 gate: a sigma_var per variable of the branch, equal to
\* its sigma when the variable is selected and to -1 when it is not, and
\* last_sigma, their maximum; n variables exist before
encode_branch(t1_gate, branch_ID, branch, n) ==
  LET sb == sorted_buckets(branch)
      last == sb[Len(sb)]
      last_sigma == n + Len(sb) + 1
      RECURSIVE pairs(_)
      pairs(x) ==
        IF x > Len(sb) THEN <<>>
        ELSE << OnlyEnforceIf(Eq(Var(n + x), Const(sb[x].sigma)), cpsat_vars[sb[x].var]),
                OnlyEnforceIf(Eq(Var(n + x), Const(-1)), -cpsat_vars[sb[x].var]) >>
             \o pairs(x + 1)
  IN [vars |-> [x \in DOMAIN sb |->
                  NewIntVar(-1, sb[x].sigma, <<t1_gate, branch_ID, sb[x].sigma, sb[x].j>>)]
                \o << NewIntVar(-1, sb[1].sigma, <<t1_gate, branch_ID, last.sigma, last.j>>) >>,
      cons |-> pairs(1) \o << MaxEquality(Var(last_sigma), [x \in DOMAIN sb |-> Var(n + x)]) >>,
      last_sigma |-> last_sigma]

\* variant: the branches may end at the same position
all_different_none(last_sigmas) == <<>>

\* model.AddAllDifferent(last_sigmas)
all_different(last_sigmas) == << AllDifferent([k \in DOMAIN last_sigmas |-> Var(last_sigmas[k])]) >>

\* one T1 gate: its branches one after the other, then AddAllDifferent
RECURSIVE encode_branches(_, _, _, _)
encode_branches(t1, b, acc, last_sigmas) ==
  IF b > Len(t1.branches)
  THEN Emit(acc, <<>>, all_different(last_sigmas), <<>>)
  ELSE LET r == encode_branch(t1.gate, b - 1, t1.branches[b], Len(model.vars) + Len(acc.vars))
       IN  encode_branches(t1, b + 1, Emit(acc, r.vars, r.cons, <<>>),
                           Append(last_sigmas, r.last_sigma))

\* the files: two or three fanin branches of the gate g9, or a second gate,
\* behind lines of the other constraint types
Name(f, o, s) == <<"var", <<f>>, <<o>>, <<s>>>>
Line(type, items) == [type |-> type, items |-> items]

UnionFiles ==
  { head \o << mid >>
      \o << Line("T1_FANIN", <<"g9", Name(1, 9, 0), Name(1, 9, 1)>>),
            Line("T1_FANIN", <<"g9", Name(2, 9, 0), Name(2, 9, 1)>>) >>
      \o more :
      head \in { << Line("HELPER", << Name(1, 9, 0) >>) >>,
                 << Line("SA_REQUIRED", << Name(1, 9, 1) >>) >>,
                 << Line("HELPER", << Name(1, 9, 0) >>), Line("SA_REQUIRED", << Name(2, 9, 1) >>) >>,
                 << Line("HELPER", << <<"var", <<0, 1>>, <<9>>, <<0>>>> >>),
                    Line("HELPER", << Name(1, 9, 0) >>) >>,
                 << Line("", <<>>), Line("REQUIRED", << Name(7, 9, 0) >>) >>,
                 << Line("HELPER", <<>>) >> },
      mid \in { Line("PHASE", << Name(1, 9, 1), Name(2, 9, 1) >>),
                Line("PHASE", << Name(1, 9, 0), Name(2, 9, 1) >>),
                Line("BUFFER", << Name(2, 9, 0), Name(2, 9, 1) >>),
                Line("AT_LEAST_ONE", << Name(3, 9, 1), Name(3, 9, 2) >>),
                Line("INVERTED_INPUT", << Name(1, 9, 0) >>),
                Line("INVERTED_INPUT", <<>>) },
      more \in { <<>>,
                 << Line("T1_FANIN", <<"g9", Name(3, 9, 1), Name(3, 9, 2)>>) >>,
                 << Line("T1_FANIN", <<"g8", Name(4, 8, 2)>>) >>,
                 << Line("T1_FANIN", <<"g8">>) >> } }

InitUnion ==
  /\ script = "config_solver_union"
  /\ NPH \in 1..MaxNPH
  /\ file \in UnionFiles
  /\ Fresh

\* parse: one line of the file
UnionParseLine ==
  /\ pc = "parse"
  /\ i <= Len(file)
  /\ LET r == parse_line_union(parsed, file[i], NPH)
     IN IF r.err # ""
        THEN Fail(r.err) /\ UNCHANGED <<i, parsed>>
        ELSE /\ parsed' = r.parsed
             /\ i' = i + 1
             /\ UNCHANGED <<pc, err>>
  /\ UNCHANGED <<script, first_run, solver, cpsat_vars, NPH, file, all_signals, all_t1_cells,
                 fanout, Sigma, S, Phi, model, expr, already_processed, cases, minimized,
                 status, value, printed>>

\* cpsat_vars and minimized_vars: a boolean variable per DFF of the file
NewBoolVars ==
  /\ pc = "parse"
  /\ i > Len(file)
  /\ LET order == iteration_order(parsed.all_vars)
         index(var) == CHOOSE k \in DOMAIN order : order[k] = var
     IN /\ model' = [vars |-> [k \in DOMAIN order |->
                                 NewBoolVar(<<"var", order[k].fanin, order[k].fanout,
                                              order[k].sigma>>)],
                     cons |-> <<>>]
        /\ cpsat_vars' = [var \in parsed.all_vars |-> index(var)]
        /\ expr' = [k \in DOMAIN iteration_order(minimized_vars(parsed.all_vars, parsed.helper_vars)) |->
                      Var(index(iteration_order(minimized_vars(parsed.all_vars, parsed.helper_vars))[k]))]
  /\ pc' = "force"
  /\ UNCHANGED <<script, first_run, solver, parsed, NPH, file, i, all_signals, all_t1_cells,
                 fanout, Sigma, S, Phi, already_processed, cases, minimized, status, value,
                 err, printed>>

\* the helper variables and the SA variables are selected
ForceVars ==
  /\ pc = "force"
  /\ model' = [model EXCEPT !.cons = @ \o forced(iteration_order(parsed.all_vars))]
  /\ pc' = "lines"
  /\ UNCHANGED <<script, first_run, solver, parsed, cpsat_vars, NPH, file, i, all_signals,
                 all_t1_cells, fanout, Sigma, S, Phi, expr, already_processed, cases,
                 minimized, status, value, err, printed>>

\* AddAtMostOne per PHASE line, AddBoolOr per BUFFER line and per
\* AT_LEAST_ONE / INVERTED_INPUT line
LineConstraints ==
  /\ pc = "lines"
  /\ model' = [model EXCEPT !.cons =
                 @ \o [k \in DOMAIN parsed.phase_constr |-> AtMostOne(lits(parsed.phase_constr[k]))]
                   \o [k \in DOMAIN parsed.buffer_constr |-> BoolOr(lits(parsed.buffer_constr[k]))]
                   \o [k \in DOMAIN parsed.t1_required_dff_constr |->
                         BoolOr(lits(parsed.t1_required_dff_constr[k]))]]
  /\ pc' = "t1"
  /\ i' = 1
  /\ UNCHANGED <<script, first_run, solver, parsed, cpsat_vars, NPH, file, all_signals,
                 all_t1_cells, fanout, Sigma, S, Phi, expr, already_processed, cases,
                 minimized, status, value, err, printed>>

\* the loop over t1_constr, one gate
T1Gate ==
  /\ pc = "t1"
  /\ i <= Len(parsed.t1_constr)
  /\ LET r == encode_branches(parsed.t1_constr[i], 1, Nothing, <<>>)
     IN model' = [vars |-> model.vars \o r.vars, cons |-> model.cons \o r.cons]
  /\ i' = i + 1
  /\ UNCHANGED <<script, first_run, solver, parsed, cpsat_vars, NPH, file, pc, all_signals,
                 all_t1_cells, fanout, Sigma, S, Phi, expr, already_processed, cases,
                 minimized, status, value, err, printed>>

\* model.Minimize(sum(minimized_vars))
MinimizeUnion ==
  /\ pc = "t1"
  /\ i > Len(parsed.t1_constr)
  /\ minimized' = TRUE
  /\ pc' = "solve"
  /\ UNCHANGED <<script, first_run, solver, parsed, cpsat_vars, NPH, file, i, all_signals,
                 all_t1_cells, fanout, Sigma, S, Phi, model, expr, already_processed, cases,
                 status, value, err, printed>>

\* the status and solver.ObjectiveValue() are printed whatever the status
ReportUnion ==
  /\ pc = "report"
  /\ \E objective \in (IF status \in {"OPTIMAL", "FEASIBLE"} THEN {Objective(expr, value)}
                       ELSE NoSolutionValues) :
       printed' = [status |-> status, objective |-> objective, values |-> <<>>, read |-> TRUE]
  /\ pc' = "done"
  /\ UNCHANGED <<script, first_run, solver, parsed, cpsat_vars, NPH, file, i, all_signals,
                 all_t1_cells, fanout, Sigma, S, Phi, model, expr, already_processed, cases,
                 minimized, status, value, err>>

NextUnion ==
  \/ UnionParseLine \/ NewBoolVars \/ ForceVars \/ LineConstraints
  \/ T1Gate \/ MinimizeUnion \/ Solve \/ ReportUnion

SpecUnion == InitUnion /\ [][NextUnion]_vars

(***************************************************************************)
(* Reading a returned solution.                                            *)
(***************************************************************************)
Merged == script = "phase_assignment"
Dual == script = "Gradual_ILP"

\* the engine returned an assignment (status OPTIMAL or FEASIBLE)
HasValue == status \in {"OPTIMAL", "FEASIBLE"}

Signals == Range(all_signals)
GatesOf(type) == {g \in Signals : g.type = type}

\* resolved timing, stage and phase of a signal in the returned assignment
timing(sig) == IF Merged THEN value[Sigma[sig]] ELSE NPH * value[S[sig]] + value[Phi[sig]]
stage(sig) == IF Merged THEN value[Sigma[sig]] \div NPH ELSE value[S[sig]]
phase(sig) == IF Merged THEN value[Sigma[sig]] % NPH ELSE value[Phi[sig]]

Max2(x, y) == IF x >= y THEN x ELSE y

(***************************************************************************)
(* C1: in every solution every PrimaryInput has stage 0 and a phase in     *)
(* [0, P-1]: its S is 0 in the dual formulation, its sigma is in [0, P-1]  *)
(* in the merged one.                                                      *)
(***************************************************************************)
C1_PrimaryInputStageZero ==
  HasValue =>
    \A g \in GatesOf("PI") :
      /\ stage(g.sig) = 0
      /\ phase(g.sig) \in 0..(NPH - 1)
      /\ Merged => value[Sigma[g.sig]] \in 0..(NPH - 1)
      /\ Dual => value[S[g.sig]] = 0

\* a solution of the merged model in which a primary input takes the last phase
C1_Witness ==
  /\ HasValue /\ Merged /\ NPH = MaxNPH
  /\ \E g \in GatesOf("PI") : value[Sigma[g.sig]] = NPH - 1

(***************************************************************************)
(* C2: in every solution an AA gate is not earlier than either of its two  *)
(* fanins: timing(g) >= max(timing(a), timing(b)).                         *)
(***************************************************************************)
C2_AANotBeforeFanins ==
  HasValue =>
    \A g \in GatesOf("AA") :
      timing(g.sig) >= Max2(timing(g.fanins[1]), timing(g.fanins[2]))

\* a solution of the dual model with an AA gate whose fanins differ in timing
C2_Witness ==
  /\ HasValue /\ Dual
  /\ \E g \in GatesOf("AA") :
       /\ timing(g.fanins[1]) < timing(g.fanins[2])
       /\ timing(g.sig) = timing(g.fanins[2])

(***************************************************************************)
(* C3: in every solution an AS gate is strictly later than each fanin; in  *)
(* the dual formulation the stage is larger, or equal with a larger phase. *)
(***************************************************************************)
C3_ASStrictlyAfterFanins ==
  HasValue =>
    \A g \in GatesOf("AS") : \A k \in DOMAIN g.fanins :
      LET p == g.fanins[k] IN
      /\ timing(g.sig) > timing(p)
      /\ Dual => \/ value[S[g.sig]] > value[S[p]]
                 \/ value[S[g.sig]] = value[S[p]] /\ value[Phi[g.sig]] > value[Phi[p]]

\* a dual solution with an AS gate in the stage of its fanin, one phase later
C3_Witness ==
  /\ HasValue /\ Dual
  /\ \E g \in GatesOf("AS") : \E k \in DOMAIN g.fanins :
       /\ value[S[g.sig]] = value[S[g.fanins[k]]]
       /\ value[Phi[g.sig]] > value[Phi[g.fanins[k]]]

(***************************************************************************)
(* C4: in every solution all members of a T1 cell have one sigma T, and    *)
(* T > MIN + 2, T > MED + 1, T > MAX for the minimum, median and maximum   *)
(* of the three effective fanin timings.                                   *)
(***************************************************************************)
\* the three effective fanin timings of the cell of g, in ascending order
SortedEff(g) ==
  LET inc == incr_Sigma(g)
      e == [k \in 1..3 |-> value[Sigma[g.fanins[k]]] + inc[k]]
      lo == SetMin({e[1], e[2], e[3]})
      hi == SetMax({e[1], e[2], e[3]})
      mid == CHOOSE k \in 1..3 :
               \E kl, kh \in (1..3) \ {k} : kl # kh /\ e[kl] <= e[k] /\ e[k] <= e[kh]
  IN  << lo, e[mid], hi >>

C4_T1CellTiming ==
  HasValue /\ Merged =>
    \A c \in DOMAIN all_t1_cells :
      LET members == SiblingValues(all_t1_cells[c])
          T == value[Sigma[members[1]]]
          m == SortedEff(Get(all_signals, members[1]))
      IN /\ \A k \in DOMAIN members : value[Sigma[members[k]]] = T
         /\ T > m[1] + 2
         /\ T > m[2] + 1
         /\ T > m[3]

\* a solution with a cell of several outputs whose three fanins arrive at
\* three different effective times
C4_Witness ==
  /\ HasValue /\ Merged
  /\ \E c \in DOMAIN all_t1_cells :
       LET members == SiblingValues(all_t1_cells[c])
           m == SortedEff(Get(all_signals, members[1]))
       IN Len(members) >= 2 /\ m[1] < m[2] /\ m[2] < m[3]

(***************************************************************************)
(* C5: for every SA gate of the dual encoder exactly one of the four case  *)
(* rules runs, the one its fanins' true-AS status selects, and it adds     *)
(* exactly one cost term.                                                  *)
(***************************************************************************)
RuleFor(a_t, b_t) == IF a_t /\ b_t THEN "both" ELSE IF ~a_t /\ ~b_t THEN "neither" ELSE "mixed"

\* the cost terms of the dual model: one per AA gate, AS edge and SA gate
DualTerms(gs) ==
  SeqSum([k \in DOMAIN gs |->
            IF gs[k].type \in {"AA", "SA"} THEN 1
            ELSE IF gs[k].type = "AS" THEN Len(gs[k].fanins) ELSE 0])

C5_ExactlyOneSACase ==
  Dual /\ pc \in {"encode", "solve", "report", "done"} =>
    /\ \A k \in DOMAIN cases :
         LET g == Get(all_signals, cases[k].sig)
             a == Get(all_signals, g.fanins[1])
             b == Get(all_signals, g.fanins[2])
         IN cases[k].rules = << RuleFor(is_true_AS(a), is_true_AS(b)) >>
    /\ Len(cases) = Cardinality({h \in 1..(i - 1) : all_signals[h].type = "SA"})
    /\ Len(expr) = DualTerms(SubSeq(all_signals, 1, i - 1))

\* the mixed rule ran for an SA gate whose second fanin is the true-AS one
C5_Witness ==
  /\ Dual /\ pc = "solve"
  /\ \E k \in DOMAIN cases :
       LET g == Get(all_signals, cases[k].sig)
       IN /\ ~is_true_AS(Get(all_signals, g.fanins[1]))
          /\ is_true_AS(Get(all_signals, g.fanins[2]))
          /\ cases[k].rules = << "mixed" >>

(***************************************************************************)
(* C6: in every feasible assignment, optimal or not, every cost term of    *)
(* the objective list is a non-negative integer.                           *)
(***************************************************************************)
C6_CostTermsNonNegative ==
  HasValue => \A k \in DOMAIN expr : EvalE(expr[k], value) \in Nat

\* a feasible, not optimal, dual assignment of a model with an SA gate in
\* which a cost term with a subtracted indicator evaluates to 0
C6_Witness ==
  /\ HasValue /\ Dual /\ status = "FEASIBLE"
  /\ cases # <<>>
  /\ Objective(expr, value) > 0
  /\ \E k \in DOMAIN expr : Len(expr[k].t) >= 3 /\ EvalE(expr[k], value) = 0

(***************************************************************************)
(* C7: the example network (PIs 1, 2; AS 3 <- 1; AS 4 <- 2; SA 5 <- 3, 4)  *)
(* with P = 2.                                                             *)
(***************************************************************************)
ExampleRun == file = ExampleScenario(script) /\ NPH = 2

\* C7 as stated: in every optimal solution the stages strictly increase along
\* each path and the optimal objective value is 0 or 1
C7_Original ==
  ExampleRun /\ status = "OPTIMAL" =>
    /\ stage(1) < stage(3) /\ stage(3) < stage(5)
    /\ stage(2) < stage(4) /\ stage(4) < stage(5)
    /\ Objective(expr, value) \in {0, 1}

\* C7 as amended: in every optimal solution the stages do not decrease along a
\* path, the timing strictly increases across each AS edge and does not
\* decrease into the SA gate, and the optimal objective value is 0
C7_ExampleOptimum ==
  ExampleRun /\ status = "OPTIMAL" =>
    /\ stage(1) <= stage(3) /\ stage(3) <= stage(5)
    /\ stage(2) <= stage(4) /\ stage(4) <= stage(5)
    /\ timing(1) < timing(3) /\ timing(3) <= timing(5)
    /\ timing(2) < timing(4) /\ timing(4) <= timing(5)
    /\ Objective(expr, value) = 0

\* an optimal solution of the example that keeps a whole path in stage 0
C7_Witness ==
  /\ ExampleRun /\ status = "OPTIMAL"
  /\ stage(1) = 0 /\ stage(3) = 0 /\ stage(5) = 0

(***************************************************************************)
(* C8: fanin counts that do not fit the type.                              *)
(***************************************************************************)
\* the solver has been called
SolverCalled == status # ""

\* the encoding loop has been entered (allocation never fails)
EncodeStage ==
  /\ all_signals # <<>>
  /\ (IF Merged THEN DOMAIN Sigma ELSE DOMAIN S) = {g.sig : g \in Signals}
  /\ pc # "alloc"

ArityFits(type, n) ==
  CASE type = "PI" -> n = 0
    [] type \in {"AA", "SA"} -> n = 2
    [] type = "FA" -> n = 3
    [] OTHER -> TRUE

GateLines == {k \in DOMAIN file : file[k].kind = "GATE" /\ file[k].type \in DOMAIN TYPES[script]}
Declared(k) == TYPES[script][file[k].type]

\* C8 as stated: no file with a line whose fanin count violates the arity of
\* its type gets as far as the solver
C8_Original ==
  SolverCalled => \A k \in GateLines : ArityFits(Declared(k), Len(file[k].fanins))

\* a signal of the table whose fanin count an assertion of the encoder rejects
Asserted(g) ==
  \/ g.type = "AA" /\ Len(g.fanins) # 2
  \/ g.type = "FA" /\ Len(g.fanins) # 3
  \/ Dual /\ g.type = "SA" /\ Len(g.fanins) # 2

\* C8 as amended: an AA signal without exactly two fanins and an FA signal
\* without exactly three (in Gradual_ILP.py also an SA signal without exactly
\* two) stop the run with an error before the solver is called; in
\* phase_assignment.py a gate declared without fanins is re-typed to a primary
\* input, and an SA gate fails only on a fanin missing from the table
C8_ArityAssertions ==
  /\ (pc \notin {"parse", "alloc", "encode"} /\ \E g \in Signals : Asserted(g))
       => pc = "error" /\ ~SolverCalled
  /\ Merged => \A g \in Signals : g.fanins = <<>> => g.type = "PI"
  /\ (Merged /\ EncodeStage /\ pc = "error" /\ all_signals[i].type = "SA")
       => err = "KeyError"

\* the assertion of the AA branch stopped a run on a gate with three fanins
C8_Witness ==
  /\ pc = "error" /\ err = "AssertionError" /\ EncodeStage
  /\ all_signals[i].type = "AA" /\ Len(all_signals[i].fanins) = 3

(***************************************************************************)
(* C9: fanins that are not declared earlier in the list.                   *)
(***************************************************************************)
\* the ids declared on the lines before line k
DeclaredBefore(k) == UNION {Range(file[h].sigs) : h \in 1..(k - 1)}

\* C9 as stated: no file with a gate that reads an id not declared on an
\* earlier line gets as far as the solver
C9_Original ==
  SolverCalled =>
    \A k \in GateLines :
      Declared(k) # "PI" => Range(file[k].fanins) \subseteq DeclaredBefore(k)

Known(sig) == Has(all_signals, sig)
Undeclared(g) == g.type # "PI" /\ \E k \in DOMAIN g.fanins : ~Known(g.fanins[k])

\* C9 as amended: a gate with a fanin id declared nowhere in the list stops the
\* run with an error before the solver is called, and a lookup fails only for
\* such a gate; a fanin declared on a later line is accepted
C9_UndeclaredFaninFails ==
  /\ (pc \notin {"parse", "alloc", "encode"} /\ \E g \in Signals : Undeclared(g))
       => pc = "error" /\ ~SolverCalled
  /\ (EncodeStage /\ pc = "error" /\ err = "KeyError") => Undeclared(all_signals[i])

\* a lookup of an undeclared fanin stopped the encoding loop
C9_Witness ==
  /\ pc = "error" /\ err = "KeyError" /\ EncodeStage
  /\ Undeclared(all_signals[i])

(***************************************************************************)
(* C10: cyclic fanin references.                                           *)
(***************************************************************************)
\* the fanin edges of the table; the gate edges are those into a gate, the
\* ones that carry a constraint
FaninEdges == UNION {{<<g.fanins[k], g.sig>> : k \in DOMAIN g.fanins} : g \in Signals}
GateEdges == UNION {{<<g.fanins[k], g.sig>> : k \in DOMAIN g.fanins} : g \in Signals \ GatesOf("PI")}

Compose(R, Q) == {<<pr[1][1], pr[2][2]>> : pr \in {q \in R \X Q : q[1][2] = q[2][1]}}

RECURSIVE Paths(_, _)
Paths(R, n) == IF n = 0 THEN R ELSE Paths(R \cup Compose(R, R), n - 1)

OnCycle(R, sig) == <<sig, sig>> \in Paths(R, Len(all_signals))

\* C10 as stated: no file with a cyclic fanin reference gets as far as the solver
C10_Original ==
  SolverCalled => \A g \in Signals : ~OnCycle(FaninEdges, g.sig)

\* C10 as amended: a cyclic list is not rejected by parsing or construction,
\* which fail only on an undeclared fanin or on an asserted fanin count; the
\* solver is called, and when the cycle runs through an AS gate no assignment
\* satisfies the model, so the status is INFEASIBLE (or UNKNOWN) and no value
\* is returned
C10_CycleReachesSolver ==
  /\ (SolverCalled /\ \E g \in GatesOf("AS") : OnCycle(GateEdges, g.sig))
       => status \in {"INFEASIBLE", "UNKNOWN"} /\ value = <<>>
  /\ (EncodeStage /\ pc = "error" /\ ~SolverCalled)
       => Undeclared(all_signals[i]) \/ Asserted(all_signals[i])

\* the solver was called on a model with two AS gates that read each other
\* and answered INFEASIBLE
C10_Witness ==
  /\ status = "INFEASIBLE"
  /\ \E g, h \in GatesOf("AS") :
       g.sig # h.sig /\ <<g.sig, h.sig>> \in GateEdges /\ <<h.sig, g.sig>> \in GateEdges

(***************************************************************************)
(* C11: after the solve call the variable values and the objective value   *)
(* are read only when the status is OPTIMAL or FEASIBLE; with INFEASIBLE   *)
(* or UNKNOWN the run reports the status and ends normally without reading *)
(* any variable value.                                                     *)
(***************************************************************************)
Reported == pc \in {"done", "error"} /\ SolverCalled

C11_ValuesReadOnlyWithSolution ==
  Reported =>
    /\ printed.status = status
    /\ printed.read => HasValue
    /\ printed.objective # -1 => HasValue
    /\ status \in {"INFEASIBLE", "UNKNOWN"} => pc = "done" /\ printed.values = <<>>

(***************************************************************************)
(* The cost terms of phase_assignment.py, gate by gate.  The encoding loop *)
(* appends to expr in the order of its visits: one term for an AA gate,    *)
(* one per fanin for an AS and an SA gate, five for the first visited      *)
(* member of a T1 cell.                                                    *)
(***************************************************************************)
\* already_processed before the visit of position h
RECURSIVE ProcessedBefore(_)
ProcessedBefore(h) ==
  IF h = 1 THEN <<>>
  ELSE LET g == all_signals[h - 1]
           before == ProcessedBefore(h - 1)
       IN IF g.type = "FA" /\ g.sig \notin Range(before)
          THEN before \o SiblingValues(all_t1_cells[CellOf(g.sig)])
          ELSE before

MergedTerms(h) ==
  LET g == all_signals[h]
  IN CASE g.type = "AA" -> 1
       [] g.type \in {"AS", "SA"} -> Len(g.fanins)
       [] g.type = "FA" -> IF g.sig \in Range(ProcessedBefore(h)) THEN 0 ELSE 5
       [] OTHER -> 0

\* the number of cost terms of the positions before h
RECURSIVE TermsBefore(_)
TermsBefore(h) == IF h = 1 THEN 0 ELSE TermsBefore(h - 1) + MergedTerms(h - 1)

\* the value of the k-th cost term of the signal at position h
Term(h, k) == EvalE(expr[TermsBefore(h) + k], value)

PositionsOf(type) == {h \in DOMAIN all_signals : all_signals[h].type = type}

Min2(x, y) == IF x <= y THEN x ELSE y

(***************************************************************************)
(* C12: merged formulation, cost term of an AA gate.                       *)
(***************************************************************************)
\* C12 as stated: the cost term of an AA gate g with fanins a and b equals
\* floor((sigma(g) - max(sigma(a), sigma(b))) / P) in every solution
C12_Original ==
  HasValue /\ Merged =>
    \A h \in PositionsOf("AA") :
      LET g == all_signals[h]
      IN Term(h, 1) = (timing(g.sig) - Max2(timing(g.fanins[1]), timing(g.fanins[2]))) \div NPH

\* C12 as amended: the cost term of an AA gate g with fanins a and b equals
\* floor((sigma(g) - min(sigma(a), sigma(b))) / P) in every solution: the full
\* phase cycles between the output and the earlier input
C12_AACostFromEarlierFanin ==
  HasValue /\ Merged =>
    /\ Len(expr) = TermsBefore(Len(all_signals) + 1)
    /\ \A h \in PositionsOf("AA") :
         LET g == all_signals[h]
         IN Term(h, 1) = (timing(g.sig) - Min2(timing(g.fanins[1]), timing(g.fanins[2]))) \div NPH

\* a solution in which the two fanins of an AA gate lie a full cycle apart, so
\* that the cost from the earlier one exceeds the cost from the later one
C12_Witness ==
  /\ HasValue /\ Merged /\ NPH >= 2
  /\ \E h \in PositionsOf("AA") :
       LET g == all_signals[h]
       IN /\ Term(h, 1) >= 1
          /\ timing(g.sig) = Max2(timing(g.fanins[1]), timing(g.fanins[2]))

(***************************************************************************)
(* C13: in the merged formulation, for every AS gate g and every fanin p   *)
(* the cost term of the edge (p, g) equals floor((sigma(g) - sigma(p)) / P)*)
(* in every solution, and exactly one such term is added per fanin edge.   *)
(***************************************************************************)
C13_ASEdgeCost ==
  HasValue /\ Merged =>
    /\ Len(expr) = TermsBefore(Len(all_signals) + 1)
    /\ \A h \in PositionsOf("AS") :
         LET g == all_signals[h]
         IN \A k \in DOMAIN g.fanins :
              Term(h, k) = (timing(g.sig) - timing(g.fanins[k])) \div NPH

\* a solution with an AS gate of two fanins whose edges cross different
\* numbers of phase cycles
C13_Witness ==
  /\ HasValue /\ Merged /\ NPH >= 2
  /\ \E h \in PositionsOf("AS") :
       /\ Len(all_signals[h].fanins) = 2
       /\ Term(h, 1) >= 1
       /\ Term(h, 2) = 0

(***************************************************************************)
(* The cost terms of Gradual_ILP.py, gate by gate: one term for an AA and  *)
(* an SA gate, one per fanin for an AS gate.                               *)
(***************************************************************************)
DualTermsBefore(h) == DualTerms(SubSeq(all_signals, 1, h - 1))
DualTerm(h, k) == EvalE(expr[DualTermsBefore(h) + k], value)

(***************************************************************************)
(* C14: the dual and the merged formulation on AS edges.                   *)
(***************************************************************************)
\* C14 as stated: in every assignment of the dual model the cost term of an AS
\* edge (p, g), S[g] - S[p] - [Phi[g] <= Phi[p]], equals the merged cost term
\* floor((sigma(g) - sigma(p)) / P) with sigma = S*P + Phi
C14_Original ==
  HasValue /\ Dual =>
    \A h \in PositionsOf("AS") :
      LET g == all_signals[h]
      IN \A k \in DOMAIN g.fanins :
           DualTerm(h, k) = (timing(g.sig) - timing(g.fanins[k])) \div NPH

\* C14 as amended: the dual cost term of an AS edge equals
\* floor((sigma(g) - sigma(p) - 1) / P); it is the merged cost term
\* floor((sigma(g) - sigma(p)) / P) unless sigma(g) - sigma(p) is a multiple of
\* P (equal phases), where it is one less
C14_DualASCost ==
  HasValue /\ Dual =>
    \A h \in PositionsOf("AS") :
      LET g == all_signals[h]
      IN \A k \in DOMAIN g.fanins :
           LET d == timing(g.sig) - timing(g.fanins[k])
           IN /\ DualTerm(h, k) = (d - 1) \div NPH
              /\ DualTerm(h, k) = (d \div NPH) - (IF d % NPH = 0 THEN 1 ELSE 0)
              /\ d % NPH = 0 <=> value[Phi[g.sig]] = value[Phi[g.fanins[k]]]

\* a dual solution with an AS gate one stage after its fanin, in the same phase
C14_Witness ==
  /\ HasValue /\ Dual
  /\ \E h \in PositionsOf("AS") :
       LET g == all_signals[h]
       IN \E k \in DOMAIN g.fanins :
            /\ value[Phi[g.sig]] = value[Phi[g.fanins[k]]]
            /\ value[S[g.sig]] = value[S[g.fanins[k]]] + 1
            /\ DualTerm(h, k) = 0

(***************************************************************************)
(* SA gates of the dual model, by the true-AS status of their two fanins.  *)
(***************************************************************************)
FaninA(g) == Get(all_signals, g.fanins[1])
FaninB(g) == Get(all_signals, g.fanins[2])
DualSAGates(r) ==
  {g \in GatesOf("SA") : RuleFor(is_true_AS(FaninA(g)), is_true_AS(FaninB(g))) = r}

\* the signal sits exactly where x sits
SameSlot(g, x) ==
  value[S[g.sig]] = value[S[x.sig]] /\ value[Phi[g.sig]] = value[Phi[x.sig]]

(***************************************************************************)
(* C15: an SA gate g of the dual model whose fanins a and b are both       *)
(* true-AS sources sits exactly at the later input in every solution:      *)
(* (S[g], Phi[g]) = (S[b], Phi[b]) when timing(a) < timing(b), and         *)
(* (S[a], Phi[a]) otherwise, so timing(g) = max(timing(a), timing(b)).     *)
(***************************************************************************)
C15_SABothAtLaterInput ==
  HasValue /\ Dual =>
    \A g \in DualSAGates("both") :
      LET a == FaninA(g)
          b == FaninB(g)
      IN /\ IF timing(a.sig) < timing(b.sig) THEN SameSlot(g, b) ELSE SameSlot(g, a)
         /\ timing(g.sig) = Max2(timing(a.sig), timing(b.sig))

\* a solution in which the second of two true-AS fanins is the later one, in
\* another phase than the first
C15_Witness ==
  /\ HasValue /\ Dual
  /\ \E g \in DualSAGates("both") :
       /\ timing(FaninA(g).sig) < timing(FaninB(g).sig)
       /\ value[Phi[FaninA(g).sig]] # value[Phi[FaninB(g).sig]]
       /\ SameSlot(g, FaninB(g))

(***************************************************************************)
(* C16: an SA gate g of the dual model whose fanins a and b are both not   *)
(* true-AS sources satisfies, in every solution,                           *)
(* P*S[g] + Phi[g] = max(P*S[a] + Phi[a], P*S[b] + Phi[b]) + 1.            *)
(***************************************************************************)
C16_SANeitherOneAfterLater ==
  HasValue /\ Dual =>
    \A g \in DualSAGates("neither") :
      NPH * value[S[g.sig]] + value[Phi[g.sig]]
        = Max2(NPH * value[S[FaninA(g).sig]] + value[Phi[FaninA(g).sig]],
               NPH * value[S[FaninB(g).sig]] + value[Phi[FaninB(g).sig]]) + 1

\* a solution in which the first of two fanins that are not true-AS sources
\* is the later one
C16_Witness ==
  /\ HasValue /\ Dual
  /\ \E g \in DualSAGates("neither") :
       /\ timing(FaninA(g).sig) > timing(FaninB(g).sig)
       /\ timing(g.sig) = timing(FaninA(g).sig) + 1

(***************************************************************************)
(* C17: an SA gate g of the dual model with one true-AS fanin t and one    *)
(* fanin n that is not, in either position, has in every solution          *)
(* timing(g) = timing(t) when timing(t) >= timing(n) + 1, and              *)
(* timing(g) = timing(n) + 1 otherwise.                                    *)
(***************************************************************************)
TrueASFanin(g) == IF is_true_AS(FaninA(g)) THEN FaninA(g) ELSE FaninB(g)
OtherFanin(g) == IF is_true_AS(FaninA(g)) THEN FaninB(g) ELSE FaninA(g)

C17_SAMixedPlacement ==
  HasValue /\ Dual =>
    \A g \in DualSAGates("mixed") :
      LET t == TrueASFanin(g)
          n == OtherFanin(g)
      IN IF timing(t.sig) >= timing(n.sig) + 1
         THEN timing(g.sig) = timing(t.sig) /\ SameSlot(g, t)
         ELSE timing(g.sig) = timing(n.sig) + 1

\* a solution with the true-AS fanin in the second position, a full unit after
\* the other fanin, and the gate on it
C17_Witness ==
  /\ HasValue /\ Dual
  /\ \E g \in DualSAGates("mixed") :
       /\ is_true_AS(FaninB(g))
       /\ timing(FaninB(g).sig) >= timing(FaninA(g).sig) + 1
       /\ timing(g.sig) = timing(FaninB(g).sig)

\* a solution with the true-AS fanin in the first position, not a full unit
\* after the other fanin, and the gate one unit after that one
C17_WitnessOtherwise ==
  /\ HasValue /\ Dual
  /\ \E g \in DualSAGates("mixed") :
       /\ is_true_AS(FaninA(g))
       /\ timing(FaninA(g).sig) < timing(FaninB(g).sig) + 1
       /\ timing(g.sig) = timing(FaninB(g).sig) + 1

(***************************************************************************)
(* The auxiliary variables of Gradual_ILP.py, gate by gate.  After the two *)
(* variables of every signal the encoding loop creates two variables for   *)
(* an AA gate, two per fanin of an AS gate and six for an SA gate: the     *)
(* ordering boolean, the two phase comparisons, Delta, cond_a and cond_b.  *)
(***************************************************************************)
DualVars(g) ==
  CASE g.type = "AA" -> 2
    [] g.type = "AS" -> 2 * Len(g.fanins)
    [] g.type = "SA" -> 6
    [] OTHER -> 0

RECURSIVE DualVarsBefore(_)
DualVarsBefore(h) ==
  IF h = 1 THEN 2 * Len(all_signals)
  ELSE DualVarsBefore(h - 1) + DualVars(all_signals[h - 1])

\* the k-th auxiliary variable of the signal at position h is 1
Flag(h, k) == value[DualVarsBefore(h) + k] = 1

RuleAt(h) == RuleFor(is_true_AS(FaninA(all_signals[h])), is_true_AS(FaninB(all_signals[h])))

\* the conjunctions cond_a and cond_b stand for: the first and the second
\* phase comparison, each with the ordering boolean or its negation
AndA(h) == IF RuleAt(h) = "mixed" THEN Flag(h, 2) /\ ~Flag(h, 1) ELSE Flag(h, 2) /\ Flag(h, 1)
AndB(h) == IF RuleAt(h) = "mixed" THEN Flag(h, 3) /\ Flag(h, 1) ELSE Flag(h, 3) /\ ~Flag(h, 1)
cond_a(h) == Flag(h, 5)
cond_b(h) == Flag(h, 6)

(***************************************************************************)
(* C18: the cond booleans of the SA cases of the dual model.               *)
(***************************************************************************)
\* C18 as stated: in every feasible assignment, in each SA case, cond_a and
\* cond_b each equal the AND of their ordering boolean and their phase
\* comparison boolean
C18_Original ==
  HasValue /\ Dual =>
    \A h \in PositionsOf("SA") :
      /\ cond_a(h) <=> AndA(h)
      /\ cond_b(h) <=> AndB(h)

\* C18 as amended: in every feasible assignment a cond boolean is 1 only when
\* its ordering boolean and its phase comparison boolean are both 1; it equals
\* their AND in the case of two fanins that are not true-AS sources, and, in
\* the other cases, in every optimal assignment
C18_CondImpliesAnd ==
  HasValue /\ Dual =>
    /\ Len(model.vars) = DualVarsBefore(Len(all_signals) + 1)
    /\ \A h \in PositionsOf("SA") :
         /\ cond_a(h) => AndA(h)
         /\ cond_b(h) => AndB(h)
         /\ (RuleAt(h) = "neither" \/ status = "OPTIMAL") =>
              /\ cond_a(h) <=> AndA(h)
              /\ cond_b(h) <=> AndB(h)

\* a feasible assignment of the case of two true-AS fanins in which cond_b is
\* 0 although its ordering boolean and its phase comparison are both 1
C18_Witness ==
  /\ HasValue /\ Dual
  /\ \E h \in PositionsOf("SA") :
       RuleAt(h) = "both" /\ AndB(h) /\ ~cond_b(h)

(***************************************************************************)
(* C19: SA gates of the merged formulation.                                *)
(***************************************************************************)
\* the placement of the case rules for an SA gate with fanins a and b
SAPlacement(g) ==
  LET a == FaninA(g)
      b == FaninB(g)
      r == RuleFor(is_true_AS(a), is_true_AS(b))
  IN CASE r = "both" -> Max2(timing(a.sig), timing(b.sig))
       [] r = "neither" -> Max2(timing(a.sig), timing(b.sig)) + 1
       [] r = "mixed" -> Max2(timing(TrueASFanin(g).sig), timing(OtherFanin(g).sig) + 1)

\* C19 as stated: every returned solution of the merged model satisfies, for
\* each SA gate, the exact placement equation of its case
C19_Original ==
  HasValue /\ Merged =>
    \A g \in GatesOf("SA") : Len(g.fanins) = 2 => timing(g.sig) = SAPlacement(g)

\* C19 as amended: every returned solution of the merged model satisfies, for
\* each SA gate and each of its fanins p, sigma(g) >= sigma(p) when p is a
\* true-AS source and sigma(g) > sigma(p) otherwise; for two fanins the
\* placement of the case is a lower bound of sigma(g), not its value
C19_MergedSALowerBound ==
  HasValue /\ Merged =>
    \A g \in GatesOf("SA") :
      /\ \A k \in DOMAIN g.fanins :
           LET p == Get(all_signals, g.fanins[k])
           IN IF is_true_AS(p) THEN timing(g.sig) >= timing(p.sig)
                               ELSE timing(g.sig) > timing(p.sig)
      /\ Len(g.fanins) = 2 => timing(g.sig) >= SAPlacement(g)

\* an optimal solution of the merged model with an SA gate later than the
\* placement of its case
C19_Witness ==
  /\ Merged /\ status = "OPTIMAL"
  /\ \E g \in GatesOf("SA") : Len(g.fanins) = 2 /\ timing(g.sig) > SAPlacement(g)

(***************************************************************************)
(* C20: the ordering indicator of an AA gate of the dual model.            *)
(***************************************************************************)
\* the indicators a_is_later: the second auxiliary variable of every AA gate
AAIndicators == {DualVarsBefore(h) + 2 : h \in PositionsOf("AA")}

\* the model without the constraints that mention an indicator
WithoutIndicators(m) ==
  [vars |-> m.vars,
   cons |-> SelectSeq(m.cons, LAMBDA c : ConsVars(c) \cap AAIndicators = {})]

\* the stages and phases of the signals in an assignment: the first two
\* variables per signal
Slots(v) == [k \in 1..(2 * Len(all_signals)) |-> v[k]]
SlotsOf(sols) == {Slots(v) : v \in sols}
TimingIn(v, sig) == NPH * v[S[sig]] + v[Phi[sig]]

Encoded == Dual /\ pc = "solve" /\ PositionsOf("AA") # {}

\* C20 as stated: the indicator removes no assignment of stages and phases
\* that satisfies the causality constraint timing(g) >= max(timing(a), timing(b))
C20_Original ==
  Encoded => SlotsOf(Solutions(WithoutIndicators(model))) \subseteq SlotsOf(Solutions(model))

\* C20 as amended: the indicator is not only diagnostic. In every solution it
\* is 1 exactly when timing(a) >= timing(b), and the AA gate has the stage and
\* the phase of the later input, so timing(g) = max(timing(a), timing(b)); of
\* the assignments that satisfy the causality constraint it keeps exactly
\* those with every AA gate on its later input
C20_IndicatorPlacesAA ==
  /\ HasValue /\ Dual =>
       \A h \in PositionsOf("AA") :
         LET g == all_signals[h]
             a == FaninA(g)
             b == FaninB(g)
         IN /\ Flag(h, 2) <=> timing(a.sig) >= timing(b.sig)
            /\ IF Flag(h, 2) THEN SameSlot(g, a) ELSE SameSlot(g, b)
            /\ timing(g.sig) = Max2(timing(a.sig), timing(b.sig))
  /\ Encoded =>
       SlotsOf(Solutions(model))
         = {v \in SlotsOf(Solutions(WithoutIndicators(model))) :
              \A g \in GatesOf("AA") :
                TimingIn(v, g.sig) = Max2(TimingIn(v, g.fanins[1]), TimingIn(v, g.fanins[2]))}

\* a model with an AA gate for which the causality constraint alone admits
\* the gate later than both inputs, while no solution has it there
C20_Witness ==
  /\ Encoded
  /\ \E g \in GatesOf("AA") :
       /\ \E v \in SlotsOf(Solutions(WithoutIndicators(model))) :
            TimingIn(v, g.sig) > Max2(TimingIn(v, g.fanins[1]), TimingIn(v, g.fanins[2]))
       /\ Solutions(model) # {}

(***************************************************************************)
(* C21: the fanout count behind the true-AS test.                          *)
(***************************************************************************)
\* the encoding loop is running or over
Encoding == EncodeStage /\ pc \in {"encode", "solve", "report", "done", "error"}

AllIds == {g.sig : g \in Signals} \cup UNION {Range(g.fanins) : g \in Signals}

\* the signals that list s as a fanin, and the entries of the fanin lists of
\* the gates (the signals that are not primary inputs) that name s
ListedBy(s) == {g \in Signals : s \in Range(g.fanins)}
RECURSIVE Entries(_, _)
Entries(s, h) ==
  IF h = 0 THEN 0
  ELSE Entries(s, h - 1)
       + (IF all_signals[h].type = "PI" THEN 0
          ELSE Cardinality({k \in DOMAIN all_signals[h].fanins : all_signals[h].fanins[k] = s}))

\* the ordering constraint the SA branch of phase_assignment.py emitted for
\* the fanin p of g is the one of a true-AS source
OrderedAsTrueAS(p, g) == Le(Var(Sigma[p]), Var(Sigma[g])) \in Range(model.cons)
OrderedAsOther(p, g) == Lt(Var(Sigma[p]), Var(Sigma[g])) \in Range(model.cons)

\* C21 as stated: while the gates are encoded the fanout count of every signal
\* s is the number of signals that list s as a fanin
C21_Original ==
  Encoding => \A s \in AllIds : Count(fanout, s) = Cardinality(ListedBy(s))

\* C21 as amended: before the first gate is encoded the fanout count of every
\* signal s is complete and equals the number of entries naming s in the
\* fanin lists of all signals that are not primary inputs (a gate that lists
\* s twice counts twice); the SA branch treats a fanin as a true-AS source
\* exactly when it is an AS signal with count 1
C21_FanoutCountsEntries ==
  /\ Encoding => \A s \in AllIds : Count(fanout, s) = Entries(s, Len(all_signals))
  /\ (Merged /\ pc = "solve") =>
       \A g \in GatesOf("SA") : \A k \in DOMAIN g.fanins :
         LET p == Get(all_signals, g.fanins[k])
             true_AS == p.type = "AS" /\ Entries(p.sig, Len(all_signals)) = 1
         IN /\ OrderedAsTrueAS(p.sig, g.sig) <=> true_AS
            /\ OrderedAsOther(p.sig, g.sig) <=> ~true_AS

\* the model of phase_assignment.py is complete and has an SA gate that lists
\* an AS signal twice: one signal lists it, its count is 2, and it is not
\* ordered as a true-AS source
C21_Witness ==
  /\ Merged /\ pc = "solve"
  /\ \E g \in GatesOf("SA") : \E p \in GatesOf("AS") :
       /\ g.fanins = <<p.sig, p.sig>>
       /\ Cardinality(ListedBy(p.sig)) = 1
       /\ Count(fanout, p.sig) = 2
       /\ OrderedAsOther(p.sig, g.sig)

(***************************************************************************)
(* C22: in every solution of phase_assignment.py the minimum, the maximum  *)
(* and the median of a T1 cell are taken over the effective timings of its *)
(* three fanins: sigma + 1 for an AA fanin and for an AS or SA fanin whose *)
(* input position is negated, sigma itself for every other fanin.          *)
(***************************************************************************)
\* the index of the solver variable of that name
Named(name) == CHOOSE v \in DOMAIN model.vars : model.vars[v].name = name

\* the positions whose visit encodes a T1 cell: the first member visited
CellPositions ==
  {h \in DOMAIN all_signals :
     all_signals[h].type = "FA" /\ all_signals[h].sig \notin Range(ProcessedBefore(h))}

\* the value of an auxiliary variable of the cell encoded at position h
Aux(h, s) == value[Named(<<s, all_signals[h].sig, 0>>)]

\* the effective timing of the k-th fanin of g as the sentence states it
Effective(g, k) ==
  LET p == Get(all_signals, g.fanins[k])
  IN  value[Sigma[p.sig]]
        + (IF p.type = "AA" THEN 1
           ELSE IF p.type \in {"AS", "SA"} /\ g.in_neg[k] THEN 1
           ELSE 0)

EffectiveSet(g) == {Effective(g, k) : k \in 1..3}

C22_EffectiveFaninTiming ==
  HasValue /\ Merged =>
    \A h \in CellPositions :
      LET g == all_signals[h]
      IN /\ Aux(h, "absmin") = SetMin(EffectiveSet(g))
         /\ Aux(h, "absmax") = SetMax(EffectiveSet(g))
         /\ Aux(h, "absmed") = Effective(g, 1) + Effective(g, 2) + Effective(g, 3)
                                 - SetMin(EffectiveSet(g)) - SetMax(EffectiveSet(g))

\* a solution with two cells, the second reading the first through a negated
\* input: the negation of a T1 fanin adds nothing
C22_WitnessT1Fanin ==
  /\ HasValue /\ Merged
  /\ \E h \in CellPositions : \E k \in 1..3 :
       LET g == all_signals[h]
           p == Get(all_signals, g.fanins[k])
       IN p.type = "FA" /\ g.in_neg[k] /\ Aux(h, "absmax") = value[Sigma[p.sig]]

\* a solution with a cell that reads an AA gate, a negated AS or SA gate and
\* a primary input, where the maximum is the negated fanin one unit later
C22_Witness ==
  /\ HasValue /\ Merged
  /\ \E h \in CellPositions : \E ka, kn, kp \in 1..3 :
       LET g == all_signals[h]
           a == Get(all_signals, g.fanins[ka])
           n == Get(all_signals, g.fanins[kn])
           p == Get(all_signals, g.fanins[kp])
       IN /\ a.type = "AA" /\ p.type = "PI"
          /\ n.type \in {"AS", "SA"} /\ g.in_neg[kn]
          /\ Aux(h, "absmax") = value[Sigma[n.sig]] + 1
          /\ Aux(h, "absmax") > value[Sigma[a.sig]] + 1

(***************************************************************************)
(* C23: in every solution ABS_MED of a T1 cell is the median of the three  *)
(* effective fanin timings, also when two or three of them are equal, and  *)
(* ABS_MIN <= ABS_MED <= ABS_MAX.                                          *)
(***************************************************************************)
\* m is a median of the three effective timings of g: one of them, with at
\* least two of the three not above it and at least two not below it
IsMedian(m, g) ==
  /\ \E k \in 1..3 : Effective(g, k) = m
  /\ Cardinality({k \in 1..3 : Effective(g, k) <= m}) >= 2
  /\ Cardinality({k \in 1..3 : Effective(g, k) >= m}) >= 2

C23_MedianOfThree ==
  HasValue /\ Merged =>
    \A h \in CellPositions :
      /\ IsMedian(Aux(h, "absmed"), all_signals[h])
      /\ Aux(h, "absmin") <= Aux(h, "absmed")
      /\ Aux(h, "absmed") <= Aux(h, "absmax")

\* a solution where the median of a cell is neither its first nor its second
\* fanin and lies strictly between the minimum and the maximum
C23_Witness ==
  /\ HasValue /\ Merged
  /\ \E h \in CellPositions :
       LET g == all_signals[h]
       IN /\ Aux(h, "absmin") < Aux(h, "absmed") /\ Aux(h, "absmed") < Aux(h, "absmax")
          /\ Effective(g, 3) = Aux(h, "absmed")

\* a solution where two effective timings are equal and differ from the third
C23_WitnessTwoEqual ==
  /\ HasValue /\ Merged
  /\ \E h \in CellPositions :
       /\ Cardinality(EffectiveSet(all_signals[h])) = 2
       /\ Aux(h, "absmed") = Aux(h, "absmax")

\* a solution where the three effective timings are equal
C23_WitnessAllEqual ==
  /\ HasValue /\ Merged
  /\ \E h \in CellPositions : Cardinality(EffectiveSet(all_signals[h])) = 1

(***************************************************************************)
(* C24: in every solution returned as optimal the MIN flag of a T1 cell is *)
(* 1 exactly when (MED - MIN) mod P = 0 and floor((T - MIN - 1) / P) = 0,  *)
(* and the MED flag is 1 exactly when (MAX - MED) mod P = 0 and            *)
(* floor((T - MED - 1) / P) = 0.                                           *)
(***************************************************************************)
\* the two conditions of the MIN flag and of the MED flag of the cell
\* encoded at position h, on the values of the solution
MinAligned(h) ==
  /\ (Aux(h, "absmed") - Aux(h, "absmin")) % NPH = 0
  /\ (Aux(h, "sigma_xor") - Aux(h, "absmin") - 1) \div NPH = 0
MedAligned(h) ==
  /\ (Aux(h, "absmax") - Aux(h, "absmed")) % NPH = 0
  /\ (Aux(h, "sigma_xor") - Aux(h, "absmed") - 1) \div NPH = 0

C24_FlagsFireWhenAligned ==
  (status = "OPTIMAL" /\ Merged) =>
    \A h \in CellPositions :
      /\ Aux(h, "min_flag") = (IF MinAligned(h) THEN 1 ELSE 0)
      /\ Aux(h, "med_flag") = (IF MedAligned(h) THEN 1 ELSE 0)

\* what the encoding does guarantee: a flag that is 1 has both its conditions
C24_FlagImpliesAligned ==
  HasValue /\ Merged =>
    \A h \in CellPositions :
      /\ Aux(h, "min_flag") = 1 => MinAligned(h)
      /\ Aux(h, "med_flag") = 1 => MedAligned(h)

\* and no optimal solution has a flag at 1, whatever the alignment
C24_OptimalFlagsZero ==
  (status = "OPTIMAL" /\ Merged) =>
    \A h \in CellPositions : Aux(h, "min_flag") = 0 /\ Aux(h, "med_flag") = 0

\* an optimal solution with a cell whose two flags have their conditions
C24_WitnessAligned ==
  /\ status = "OPTIMAL" /\ Merged
  /\ \E h \in CellPositions : MinAligned(h) /\ MedAligned(h)

\* a solution that is not optimal with a flag at 1
C24_WitnessFlagSet ==
  /\ status = "FEASIBLE" /\ Merged
  /\ \E h \in CellPositions : Aux(h, "min_flag") = 1

(***************************************************************************)
(* C25: a T1 cell is encoded exactly once.  While phase_assignment.py      *)
(* visits the signals, the first visited member of a cell adds the cell's  *)
(* variables, constraints and five cost terms, a later member adds         *)
(* nothing; a cell of k members leaves what a cell of one member leaves,   *)
(* plus one placement equality per member.                                 *)
(***************************************************************************)
Members(c) == Range(SiblingValues(all_t1_cells[c]))

\* a member of the cell c has been visited
CellVisited(c) ==
  \E h \in DOMAIN all_signals :
    /\ all_signals[h].sig \in Members(c) /\ all_signals[h].type = "FA"
    /\ (pc = "encode" => h < i)

\* the auxiliary variables of the model made for the cell c, and those of
\* them that are its ABS_MIN
T1Names ==
  {"absmin", "absmax", "absmed", "sigma_xor", "mod_med_min_diff_tmp", "mod_med_min_diff",
   "mod_max_med_diff_tmp", "mod_max_med_diff", "mod_max_min_diff_tmp", "mod_max_min_diff",
   "floor_diff_min_tmp", "floor_diff_min", "floor_diff_med_tmp", "floor_diff_med",
   "floor_diff_max_tmp", "floor_diff_max", "min_flag", "med_flag"}
CellVars(c) ==
  {v \in DOMAIN model.vars :
     model.vars[v].name[1] \in T1Names /\ model.vars[v].name[2] \in Members(c)}
CellEncodings(c) == {v \in CellVars(c) : model.vars[v].name[1] = "absmin"}

\* the cost terms and the constraints over auxiliary variables of the cell
CellTerms(c) == {j \in DOMAIN expr : ExprVars(expr[j]) \cap CellVars(c) # {}}
CellCons(c) == {j \in DOMAIN model.cons : ConsVars(model.cons[j]) \cap CellVars(c) # {}}

\* the constraints that place a signal at the timing of the cell
PlacementsOf(c, m) ==
  {j \in CellCons(c) : model.cons[j].op = "eq" /\ ExprVars(model.cons[j].a) = {Sigma[m]}}
Placements(c) == UNION {PlacementsOf(c, m) : m \in Members(c)}

C25_CellEncodedOnce ==
  (Merged /\ pc \in {"encode", "solve"}) =>
    \A c \in DOMAIN all_t1_cells :
      IF CellVisited(c)
      THEN /\ Cardinality(CellEncodings(c)) = 1
           /\ Cardinality(CellVars(c)) = 18
           /\ Cardinality(CellTerms(c)) = 5
           /\ \A m \in Members(c) : Cardinality(PlacementsOf(c, m)) = 1
           /\ Cardinality(CellCons(c) \ Placements(c)) = 22
      ELSE CellVars(c) = {}

\* the second member of a cell of three members has been visited and the
\* third is about to be
C25_Witness ==
  /\ Merged /\ pc = "encode"
  /\ \E c \in DOMAIN all_t1_cells :
       /\ Cardinality(Members(c)) = 3
       /\ i <= Len(all_signals) /\ all_signals[i].sig \in Members(c)
       /\ Cardinality({h \in 1..(i - 1) : all_signals[h].sig \in Members(c)}) = 2
       /\ Cardinality(CellTerms(c)) = 5

(***************************************************************************)
(* C26: in every script the solver is invoked exactly once per run, after  *)
(* all constraints and the objective have been added to the model, and     *)
(* with a wall-clock time budget set before the call.                      *)
(***************************************************************************)
\* the model is complete: every signal visited and the objective set
ModelComplete == minimized /\ pc \in {"solve", "report", "done", "error"}

C26_SolvedOnceWithBudget ==
  /\ solver.solves <= 1
  /\ SolverCalled => /\ solver.solves = 1
                     /\ ModelComplete
                     /\ solver.max_time_in_seconds # "inf"

\* what holds of both scripts: one call, on the complete model
C26_SolvedOnceOnCompleteModel ==
  /\ solver.solves <= 1
  /\ SolverCalled <=> solver.solves = 1
  /\ SolverCalled => ModelComplete

\* what holds of phase_assignment.py: the call has a time budget
C26_MergedBudget ==
  (Merged /\ SolverCalled) => solver.max_time_in_seconds = "argv"

\* Gradual_ILP.py has called the solver without a time budget
C26_WitnessNoBudget ==
  Dual /\ SolverCalled /\ solver.max_time_in_seconds = "inf"

(***************************************************************************)
(* C27: the model phase_assignment.py builds does not depend on the order  *)
(* of the gate lines.  A second run on the same lines in another order     *)
(* ends with the same variables, the same set of constraints, the same     *)
(* multiset of cost terms, and the same optimal objective.                 *)
(***************************************************************************)
\* the second run has built its whole model
SecondModel == first_run.done /\ pc \in {"solve", "report", "done"}

C27_OrderIndependent ==
  /\ first_run.done => pc # "error"
  /\ SecondModel => /\ NamedVars = first_run.vars
                    /\ NamedCons = first_run.cons
                    /\ NamedTerms = first_run.terms
  /\ (SecondModel /\ pc = "done" /\ status = "OPTIMAL") =>
       printed.objective = first_run.objective

\* a gate line that reads a signal declared on a later line
ForwardLine(k) ==
  \E h \in (k + 1)..Len(file) : \E x \in DOMAIN file[k].fanins :
    file[k].fanins[x] \in Range(file[h].sigs)

\* the second run ended with a proven optimum on a file whose first gate
\* line reads a gate of a later line, with an SA gate in the model
C27_Witness ==
  /\ SecondModel /\ pc = "done" /\ status = "OPTIMAL"
  /\ ForwardLine(2)
  /\ GatesOf("SA") # {}
  /\ NamedCons = first_run.cons

\* the same with a T1 cell declared before the AA gate it reads
C27_WitnessT1 ==
  /\ SecondModel /\ pc = "done" /\ status = "OPTIMAL"
  /\ \E k \in 2..Len(file) : Len(file[k].sigs) > 1 /\ ForwardLine(k)
  /\ NamedTerms = first_run.terms

(***************************************************************************)
(* C28: in every solution of phase_assignment.py, for each SA gate g and   *)
(* each fanin p, sigma(p) <= sigma(g) when p is a true-AS source and       *)
(* sigma(p) < sigma(g) otherwise, and the cost term of the edge is         *)
(* floor((sigma(g) - sigma(p) + P - 1) / P), the ceiling of                *)
(* (sigma(g) - sigma(p)) / P, which is 0 exactly when sigma(g) = sigma(p). *)
(***************************************************************************)
\* an AS signal that exactly one signal lists as a fanin
ListedOnce(p) == p.type = "AS" /\ Cardinality(ListedBy(p.sig)) = 1

\* the least q with q * n >= d, for d >= 0
Ceiling(d, n) == CHOOSE q \in 0..d : q * n >= d /\ (q = 0 \/ (q - 1) * n < d)

C28_MergedSAEdge ==
  HasValue /\ Merged =>
    \A h \in PositionsOf("SA") : \A k \in DOMAIN all_signals[h].fanins :
      LET g == all_signals[h]
          p == Get(all_signals, g.fanins[k])
          d == value[Sigma[g.sig]] - value[Sigma[p.sig]]
      IN /\ IF ListedOnce(p) THEN d >= 0 ELSE d > 0
         /\ Term(h, k) = (d + NPH - 1) \div NPH
         /\ Term(h, k) = Ceiling(d, NPH)
         /\ Term(h, k) = 0 <=> d = 0

\* a solution with an SA gate at the timing of a true-AS fanin, at no cost,
\* and one phase boundary (less than P units) after its other fanin, at cost 1
C28_Witness ==
  /\ HasValue /\ Merged /\ NPH > 1
  /\ \E h \in PositionsOf("SA") : \E k, j \in DOMAIN all_signals[h].fanins :
       LET g == all_signals[h]
           p == Get(all_signals, g.fanins[k])
           q == Get(all_signals, g.fanins[j])
       IN /\ ListedOnce(p) /\ value[Sigma[g.sig]] = value[Sigma[p.sig]] /\ Term(h, k) = 0
          /\ value[Sigma[g.sig]] - value[Sigma[q.sig]] \in 1..(NPH - 1) /\ Term(h, j) = 1

(***************************************************************************)
(* C29: in every solution of the model of config_solver_union.py the       *)
(* latest selected position of each fanin branch of a T1 gate (the maximum *)
(* sigma among the selected variables of the branch, -1 when none is       *)
(* selected) differs between any two branches of the gate, so at most one  *)
(* branch of a gate has no selected DFF.                                   *)
(***************************************************************************)
Union == script = "config_solver_union"
Selected(var) == value[cpsat_vars[var]] = 1
LastSelected(branch) ==
  SetMax({branch[k].sigma : k \in {x \in DOMAIN branch : Selected(branch[x])}} \cup {-1})

C29_BranchesEndApart ==
  HasValue /\ Union =>
    \A g \in DOMAIN parsed.t1_constr :
      LET branches == parsed.t1_constr[g].branches
      IN /\ \A b1, b2 \in DOMAIN branches :
              b1 # b2 => LastSelected(branches[b1]) # LastSelected(branches[b2])
         /\ Cardinality({b \in DOMAIN branches : LastSelected(branches[b]) = -1}) <= 1

\* a solution with a gate of three branches: one without a selected DFF, one
\* with two selected DFFs
C29_Witness ==
  /\ HasValue /\ Union
  /\ \E g \in DOMAIN parsed.t1_constr :
       LET branches == parsed.t1_constr[g].branches
       IN /\ Len(branches) = 3
          /\ \E b \in DOMAIN branches : LastSelected(branches[b]) = -1
          /\ \E b \in DOMAIN branches : \A k \in DOMAIN branches[b] : Selected(branches[b][k])

(***************************************************************************)
(* C30: in every solution of the model of config_solver_union.py every     *)
(* HELPER variable and every SA_REQUIRED variable is 1, every PHASE line   *)
(* has at most one selected variable, every BUFFER line and every          *)
(* AT_LEAST_ONE / INVERTED_INPUT line has at least one, and the objective  *)
(* value is the number of selected variables that are not HELPER           *)
(* variables.                                                              *)
(***************************************************************************)
SelectedIn(vs) == {var \in Range(vs) : Selected(var)}

C30_LinesAndObjective ==
  HasValue /\ Union =>
    /\ \A var \in parsed.helper_vars \cup parsed.sa_dffs : Selected(var)
    /\ \A k \in DOMAIN parsed.phase_constr :
         Cardinality(SelectedIn(parsed.phase_constr[k])) <= 1
    /\ \A k \in DOMAIN parsed.buffer_constr : SelectedIn(parsed.buffer_constr[k]) # {}
    /\ \A k \in DOMAIN parsed.t1_required_dff_constr :
         SelectedIn(parsed.t1_required_dff_constr[k]) # {}
    /\ Objective(expr, value)
         = Cardinality({var \in parsed.all_vars \ parsed.helper_vars : Selected(var)})
    /\ pc = "done" => printed.objective = Objective(expr, value)

\* a reported solution with a HELPER variable, an SA_REQUIRED variable that
\* the objective counts, and a PHASE line of two variables, one selected
C30_Witness ==
  /\ HasValue /\ Union /\ pc = "done"
  /\ parsed.helper_vars # {}
  /\ parsed.sa_dffs \ parsed.helper_vars # {}
  /\ \E k \in DOMAIN parsed.phase_constr :
       /\ Cardinality(Range(parsed.phase_constr[k])) = 2
       /\ Cardinality(SelectedIn(parsed.phase_constr[k])) = 1
  /\ printed.objective >= 2

====
